---- MODULE Spec2Model ----
(***************************************************************************)
(* Model of the tree-structured math-expression editor (math2.h/math2.c):  *)
(* the node pool, sequences, the cursor, the structural editing operations,*)
(* the measure and draw passes and the LaTeX serializer.  Pointers into    *)
(* the pool are modelled as pool indices, the null pointer as NULL.  Every *)
(* C function is an operator of the same name that takes the expression    *)
(* object (or the pool) and gives back the updated one; every action       *)
(* applies one public operation.                                           *)
(***************************************************************************)
EXTENDS Integers, Sequences, FiniteSets, TLC

(* Pool capacity.  The source has 256 (math2.h:17); the model scales it. *)
MAX_NODES == 8

(* The number of editing operations (insertions, Delete, Clear) a run of   *)
(* Spec applies; cursor operations are not counted.                        *)
MaxEdits == 3

(* The same for a run of SpecFrac and of SpecDigits. *)
MaxFracEdits == 4

(* The same for a run of SpecExp and of SpecSub. *)
MaxScriptEdits == 3

(* The same for a run of SpecCursor. *)
MaxCursorEdits == 2

(* The capacity of expr->latex, scaled with the pool: the program has      *)
(* MAX_NODES 256 and MAX_LATEX 1024, four bytes of buffer per node.         *)
MAX_LATEX == 32

MaxLatexEdits == 3

MaxModeEdits == 2

MaxDrawEdits == 3

(* The same for a run of SpecKeys and of SpecNav. *)
MaxKeyEdits == 2

MaxNavEdits == 3

(* The longest string handed to usb_hid_kbd_type_string_cancellable. *)
MaxStrLen == 2

(* With timeout_ticks = 0 nothing bounds idle_count: the wait for the      *)
(* link goes on counting up to this value.                                 *)
MaxIdleCount == 10

NULL == -1

VARIABLES expr, last, budget, g_paren_depth, g_alpha_lock, kbd

vars == <<expr, last, budget, g_paren_depth, g_alpha_lock, kbd>>

Pool == 0 .. (MAX_NODES - 1)

(***************************************************************************)
(* Nodes                                                                   *)
(***************************************************************************)

(* The union `data` after memset(node, 0, ...), read through the member   *)
(* that belongs to the node type.                                          *)
ZeroData(type) ==
    CASE type = "SEQUENCE"   -> [first |-> NULL, last |-> NULL]
      [] type = "TEXT"       -> [subtype |-> "NUMBER", text |-> ""]
      [] type = "FRACTION"   -> [numer |-> NULL, denom |-> NULL]
      [] type = "EXPONENT"   -> [base |-> NULL, power |-> NULL]
      [] type = "SUBSCRIPT"  -> [base |-> NULL, sub |-> NULL]
      [] type = "ROOT"       -> [index |-> 0, content |-> NULL]
      [] type = "NTHROOT"    -> [index |-> NULL, content |-> NULL]
      [] type = "ABS"        -> [content |-> NULL]
      [] type = "PAREN"      -> [content |-> NULL]
      [] type = "FUNCTION"   -> [name |-> "", arg |-> NULL]
      [] type = "MIXED_FRAC" -> [whole |-> NULL, numer |-> NULL, denom |-> NULL]
      [] OTHER               -> [first |-> NULL, last |-> NULL]

ZeroNode(type) ==
    [type |-> type, parent |-> NULL, next |-> NULL, prev |-> NULL,
     data |-> ZeroData(type)]

(***************************************************************************)
(* Node pool                                                               *)
(***************************************************************************)

(* math2_alloc_node that scans from slot 0 (first fit) instead of from     *)
(* next_free.                                                              *)
math2_alloc_node_first_fit(e, type) ==
    LET hits == {i \in 0 .. (MAX_NODES - 1) : e.nodes[i].type = "EMPTY"}
    IN  IF hits = {} THEN [e |-> e, node |-> NULL]
        ELSE LET idx == CHOOSE j \in hits : \A k \in hits : j <= k
             IN  [e |-> [e EXCEPT !.nodes[idx] = ZeroNode(type),
                                  !.next_free = (idx + 1) % MAX_NODES],
                  node |-> idx]

(* Result: the expression after the call and the node returned (NULL when *)
(* the pool is exhausted).                                                 *)
math2_alloc_node(e, type) ==
    LET hits == {i \in 0 .. (MAX_NODES - 1) :
                    e.nodes[(e.next_free + i) % MAX_NODES].type = "EMPTY"}
    IN  IF hits = {} THEN [e |-> e, node |-> NULL]
        ELSE LET i   == CHOOSE j \in hits : \A k \in hits : j <= k
                 idx == (e.next_free + i) % MAX_NODES
             IN  [e |-> [e EXCEPT !.nodes[idx] = ZeroNode(type),
                                  !.next_free = (idx + 1) % MAX_NODES],
                  node |-> idx]

RECURSIVE math2_free_node(_, _)
RECURSIVE FreeChildren(_, _)

(* The while loop of the NODE_SEQUENCE case. *)
FreeChildren(ns, child) ==
    IF child = NULL THEN ns
    ELSE LET next == ns[child].next
         IN  FreeChildren(math2_free_node(ns, child), next)

(* math2_free_node that forgets the numerator slot of a MixedFraction.     *)
math2_free_node_skips_numer(ns, node) ==
    IF node = NULL \/ ns[node].type = "EMPTY" THEN ns
    ELSE LET t == ns[node].type
             d == ns[node].data
             n1 == CASE t = "SEQUENCE"   -> FreeChildren(ns, d.first)
                     [] t = "FRACTION"   ->
                          math2_free_node(math2_free_node(ns, d.numer), d.denom)
                     [] t = "EXPONENT"   ->
                          math2_free_node(math2_free_node(ns, d.base), d.power)
                     [] t = "SUBSCRIPT"  ->
                          math2_free_node(math2_free_node(ns, d.base), d.sub)
                     [] t = "ROOT"       -> math2_free_node(ns, d.content)
                     [] t = "NTHROOT"    ->
                          math2_free_node(math2_free_node(ns, d.index), d.content)
                     [] t = "ABS"        -> math2_free_node(ns, d.content)
                     [] t = "PAREN"      -> math2_free_node(ns, d.content)
                     [] t = "FUNCTION"   -> math2_free_node(ns, d.arg)
                     [] t = "MIXED_FRAC" ->
                          math2_free_node(math2_free_node(ns, d.whole), d.denom)
                     [] OTHER            -> ns
         IN  [n1 EXCEPT ![node].type = "EMPTY"]

math2_free_node(ns, node) ==
    IF node = NULL \/ ns[node].type = "EMPTY" THEN ns
    ELSE LET t == ns[node].type
             d == ns[node].data
             n1 == CASE t = "SEQUENCE"   -> FreeChildren(ns, d.first)
                     [] t = "FRACTION"   ->
                          math2_free_node(math2_free_node(ns, d.numer), d.denom)
                     [] t = "EXPONENT"   ->
                          math2_free_node(math2_free_node(ns, d.base), d.power)
                     [] t = "SUBSCRIPT"  ->
                          math2_free_node(math2_free_node(ns, d.base), d.sub)
                     [] t = "ROOT"       -> math2_free_node(ns, d.content)
                     [] t = "NTHROOT"    ->
                          math2_free_node(math2_free_node(ns, d.index), d.content)
                     [] t = "ABS"        -> math2_free_node(ns, d.content)
                     [] t = "PAREN"      -> math2_free_node(ns, d.content)
                     [] t = "FUNCTION"   -> math2_free_node(ns, d.arg)
                     [] t = "MIXED_FRAC" ->
                          math2_free_node(
                            math2_free_node(math2_free_node(ns, d.whole), d.numer),
                            d.denom)
                     [] OTHER            -> ns
         IN  [n1 EXCEPT ![node].type = "EMPTY"]

(* math2_free_node that also moves the scan index to the released slot.   *)
FreeNode_resets_scan(e, node) ==
    IF node = NULL THEN e
    ELSE [e EXCEPT !.nodes = math2_free_node(e.nodes, node),
                   !.next_free = node]

(* math2_free_node(expr, node) as a step on the expression: the recursion  *)
(* assigns node types only, no other field of the expression.              *)
FreeNode(e, node) == [e EXCEPT !.nodes = math2_free_node(e.nodes, node)]

math2_new_sequence(e) == math2_alloc_node(e, "SEQUENCE")

(* math2_clear_modes that forgets alpha_mode. *)
math2_clear_modes_shift_only(e) == [e EXCEPT !.shift_mode = FALSE]

math2_clear_modes(e) == [e EXCEPT !.shift_mode = FALSE, !.alpha_mode = FALSE]

(* math2_toggle_shift as a flip of shift_mode alone. *)
math2_toggle_shift_flip_only(e) == [e EXCEPT !.shift_mode = ~@]

math2_toggle_shift(e) == [e EXCEPT !.shift_mode = ~@, !.alpha_mode = FALSE]

math2_toggle_alpha(e) == [e EXCEPT !.alpha_mode = ~@, !.shift_mode = FALSE]

math2_init ==
    LET blank == [nodes      |-> [i \in Pool |-> ZeroNode("EMPTY")],
                  next_free  |-> 0,
                  root       |-> NULL,
                  cursor     |-> [sequence |-> NULL, after |-> NULL],
                  latex      |-> "",
                  shift_mode |-> FALSE,
                  alpha_mode |-> FALSE]
        a == math2_new_sequence(blank)
    IN  [a.e EXCEPT !.root = a.node,
                    !.cursor = [sequence |-> a.node, after |-> NULL]]

(***************************************************************************)
(* Sequence operations                                                     *)
(***************************************************************************)

(* if(n) n->prev = v *)
SetPrev(ns, n, v) == IF n = NULL THEN ns ELSE [ns EXCEPT ![n].prev = v]

seq_insert_after(ns, seq, after, node) ==
    IF seq = NULL \/ node = NULL THEN ns
    ELSE IF ns[seq].type /= "SEQUENCE" THEN ns
    ELSE IF after = NULL
         THEN [SetPrev([ns EXCEPT ![node].parent = seq,
                                  ![node].prev = NULL,
                                  ![node].next = ns[seq].data.first],
                       ns[seq].data.first, node)
                  EXCEPT ![seq].data.first = node,
                         ![seq].data.last = IF @ = NULL THEN node ELSE @]
         ELSE [SetPrev([ns EXCEPT ![node].parent = seq,
                                  ![node].prev = after,
                                  ![node].next = ns[after].next],
                       ns[after].next, node)
                  EXCEPT ![after].next = node,
                         ![seq].data.last = IF @ = after THEN node ELSE @]

(* if(node->prev) node->prev->next = node->next;                           *)
(* else seq->data.seq.first = node->next;                                  *)
UnlinkFromPrev(ns, node, seq) ==
    IF ns[node].prev /= NULL
    THEN [ns EXCEPT ![ns[node].prev].next = ns[node].next]
    ELSE [ns EXCEPT ![seq].data.first = ns[node].next]

(* if(node->next) node->next->prev = node->prev;                           *)
(* else seq->data.seq.last = node->prev;                                   *)
UnlinkFromNext(ns, node, seq) ==
    IF ns[node].next /= NULL
    THEN [ns EXCEPT ![ns[node].next].prev = ns[node].prev]
    ELSE [ns EXCEPT ![seq].data.last = ns[node].prev]

(* seq_remove without the update of seq->data.seq.last. *)
seq_remove_keeps_last(ns, node) ==
    IF node = NULL THEN ns
    ELSE IF ns[node].parent = NULL THEN ns
    ELSE IF ns[ns[node].parent].type /= "SEQUENCE" THEN ns
    ELSE [SetPrev(UnlinkFromPrev(ns, node, ns[node].parent),
                  ns[node].next, ns[node].prev)
             EXCEPT ![node].parent = NULL,
                    ![node].prev = NULL,
                    ![node].next = NULL]

seq_remove(ns, node) ==
    IF node = NULL THEN ns
    ELSE IF ns[node].parent = NULL THEN ns
    ELSE IF ns[ns[node].parent].type /= "SEQUENCE" THEN ns
    ELSE [UnlinkFromNext(UnlinkFromPrev(ns, node, ns[node].parent),
                         node, ns[node].parent)
             EXCEPT ![node].parent = NULL,
                    ![node].prev = NULL,
                    ![node].next = NULL]

(* seq_is_empty with the test of `first` inverted. *)
seq_is_empty_inverted(ns, seq) ==
    /\ seq /= NULL
    /\ ns[seq].type = "SEQUENCE"
    /\ ns[seq].data.first /= NULL

seq_is_empty(ns, seq) ==
    /\ seq /= NULL
    /\ ns[seq].type = "SEQUENCE"
    /\ ns[seq].data.first = NULL

(***************************************************************************)
(* Cursor operations.  Each gives the expression after the call and the    *)
(* boolean the C function returns.                                         *)
(***************************************************************************)

(* cursor_left that, at the start of the sequence, wraps to its end and   *)
(* still returns false.                                                    *)
cursor_left_wraps(e) ==
    IF e.cursor.after /= NULL
    THEN [e |-> [e EXCEPT !.cursor.after = e.nodes[e.cursor.after].prev],
          ret |-> TRUE]
    ELSE [e |-> [e EXCEPT !.cursor.after =
                     e.nodes[e.cursor.sequence].data.last],
          ret |-> FALSE]

cursor_left(e) ==
    IF e.cursor.after /= NULL
    THEN [e |-> [e EXCEPT !.cursor.after = e.nodes[e.cursor.after].prev],
          ret |-> TRUE]
    ELSE [e |-> e, ret |-> FALSE]

(* cursor_right that, from the start of the sequence, goes to its last    *)
(* child instead of its first.                                             *)
cursor_right_to_last(e) ==
    LET next == IF e.cursor.after /= NULL
                THEN e.nodes[e.cursor.after].next
                ELSE e.nodes[e.cursor.sequence].data.last
    IN  IF next /= NULL
        THEN [e |-> [e EXCEPT !.cursor.after = next], ret |-> TRUE]
        ELSE [e |-> e, ret |-> FALSE]

cursor_right(e) ==
    LET next == IF e.cursor.after /= NULL
                THEN e.nodes[e.cursor.after].next
                ELSE e.nodes[e.cursor.sequence].data.first
    IN  IF next /= NULL
        THEN [e |-> [e EXCEPT !.cursor.after = next], ret |-> TRUE]
        ELSE [e |-> e, ret |-> FALSE]

get_last_slot(ns, node) ==
    LET t == ns[node].type
        d == ns[node].data
    IN  CASE t = "FRACTION"   -> d.denom
          [] t = "EXPONENT"   -> d.power
          [] t = "SUBSCRIPT"  -> d.sub
          [] t = "ROOT"       -> d.content
          [] t = "NTHROOT"    -> d.content
          [] t = "ABS"        -> d.content
          [] t = "PAREN"      -> d.content
          [] t = "FUNCTION"   -> d.arg
          [] t = "MIXED_FRAC" -> d.denom
          [] OTHER            -> NULL

get_first_slot(ns, node) ==
    LET t == ns[node].type
        d == ns[node].data
    IN  CASE t = "FRACTION"   -> d.numer
          [] t = "EXPONENT"   -> d.base
          [] t = "SUBSCRIPT"  -> d.base
          [] t = "ROOT"       -> d.content
          [] t = "NTHROOT"    -> d.index
          [] t = "ABS"        -> d.content
          [] t = "PAREN"      -> d.content
          [] t = "FUNCTION"   -> d.arg
          [] t = "MIXED_FRAC" -> d.whole
          [] OTHER            -> NULL

(* The node the cursor is positioned before (cursor_enter_right and        *)
(* cursor_enter_left compute it the same way).                             *)
NodeAhead(e) ==
    IF e.cursor.after /= NULL
    THEN e.nodes[e.cursor.after].next
    ELSE e.nodes[e.cursor.sequence].data.first

(* cursor_enter_right that enters the last slot instead of the first. *)
cursor_enter_right_last_slot(e) ==
    LET target == NodeAhead(e)
    IN  IF target = NULL THEN [e |-> e, ret |-> FALSE]
        ELSE LET slot == get_last_slot(e.nodes, target)
             IN  IF slot /= NULL /\ e.nodes[slot].type = "SEQUENCE"
                 THEN [e |-> [e EXCEPT !.cursor = [sequence |-> slot,
                                                   after |-> NULL]],
                       ret |-> TRUE]
                 ELSE [e |-> e, ret |-> FALSE]

cursor_enter_right(e) ==
    LET target == NodeAhead(e)
    IN  IF target = NULL THEN [e |-> e, ret |-> FALSE]
        ELSE LET slot == get_first_slot(e.nodes, target)
             IN  IF slot /= NULL /\ e.nodes[slot].type = "SEQUENCE"
                 THEN [e |-> [e EXCEPT !.cursor = [sequence |-> slot,
                                                   after |-> NULL]],
                       ret |-> TRUE]
                 ELSE [e |-> e, ret |-> FALSE]

(* cursor_enter_left that lands at the start of the slot instead of its   *)
(* end.                                                                    *)
cursor_enter_left_at_start(e) ==
    LET target == NodeAhead(e)
    IN  IF target = NULL THEN [e |-> e, ret |-> FALSE]
        ELSE LET slot == get_last_slot(e.nodes, target)
             IN  IF slot /= NULL /\ e.nodes[slot].type = "SEQUENCE"
                 THEN [e |-> [e EXCEPT !.cursor = [sequence |-> slot,
                                                   after |-> NULL]],
                       ret |-> TRUE]
                 ELSE [e |-> e, ret |-> FALSE]

cursor_enter_left(e) ==
    LET target == NodeAhead(e)
    IN  IF target = NULL THEN [e |-> e, ret |-> FALSE]
        ELSE LET slot == get_last_slot(e.nodes, target)
             IN  IF slot /= NULL /\ e.nodes[slot].type = "SEQUENCE"
                 THEN [e |-> [e EXCEPT !.cursor =
                                 [sequence |-> slot,
                                  after |-> e.nodes[slot].data.last]],
                       ret |-> TRUE]
                 ELSE [e |-> e, ret |-> FALSE]

cursor_enter(e) ==
    LET target == IF e.cursor.after /= NULL
                  THEN e.cursor.after
                  ELSE e.nodes[e.cursor.sequence].data.first
    IN  IF target = NULL THEN [e |-> e, ret |-> FALSE]
        ELSE LET slot == get_first_slot(e.nodes, target)
             IN  IF slot /= NULL /\ e.nodes[slot].type = "SEQUENCE"
                 THEN [e |-> [e EXCEPT !.cursor =
                                 [sequence |-> slot,
                                  after |-> e.nodes[slot].data.last]],
                       ret |-> TRUE]
                 ELSE [e |-> e, ret |-> FALSE]

(* cursor_exit_right that lands at the end of the parent sequence. *)
cursor_exit_right_to_end(e) ==
    LET seq == e.cursor.sequence
    IN  IF e.nodes[seq].parent = NULL THEN [e |-> e, ret |-> FALSE]
        ELSE LET container == e.nodes[seq].parent
                 cp == e.nodes[container].parent
             IN  IF cp /= NULL /\ e.nodes[cp].type = "SEQUENCE"
                 THEN [e |-> [e EXCEPT !.cursor =
                                 [sequence |-> cp,
                                  after |-> e.nodes[cp].data.last]],
                       ret |-> TRUE]
                 ELSE [e |-> e, ret |-> FALSE]

(* cursor_exit_right that lands before the container, as cursor_exit_left *)
(* does.                                                                   *)
cursor_exit_right_before(e) ==
    LET seq == e.cursor.sequence
    IN  IF e.nodes[seq].parent = NULL THEN [e |-> e, ret |-> FALSE]
        ELSE LET container == e.nodes[seq].parent
                 cp == e.nodes[container].parent
             IN  IF cp /= NULL /\ e.nodes[cp].type = "SEQUENCE"
                 THEN [e |-> [e EXCEPT !.cursor =
                                 [sequence |-> cp,
                                  after |-> e.nodes[container].prev]],
                       ret |-> TRUE]
                 ELSE [e |-> e, ret |-> FALSE]

cursor_exit_right(e) ==
    LET seq == e.cursor.sequence
    IN  IF e.nodes[seq].parent = NULL THEN [e |-> e, ret |-> FALSE]
        ELSE LET container == e.nodes[seq].parent
                 cp == e.nodes[container].parent
             IN  IF cp /= NULL /\ e.nodes[cp].type = "SEQUENCE"
                 THEN [e |-> [e EXCEPT !.cursor = [sequence |-> cp,
                                                   after |-> container]],
                       ret |-> TRUE]
                 ELSE [e |-> e, ret |-> FALSE]

(* cursor_exit_left that lands after the container, as cursor_exit_right   *)
(* does.                                                                   *)
cursor_exit_left_after(e) ==
    LET seq == e.cursor.sequence
    IN  IF e.nodes[seq].parent = NULL THEN [e |-> e, ret |-> FALSE]
        ELSE LET container == e.nodes[seq].parent
                 cp == e.nodes[container].parent
             IN  IF cp /= NULL /\ e.nodes[cp].type = "SEQUENCE"
                 THEN [e |-> [e EXCEPT !.cursor = [sequence |-> cp,
                                                   after |-> container]],
                       ret |-> TRUE]
                 ELSE [e |-> e, ret |-> FALSE]

cursor_exit_left(e) ==
    LET seq == e.cursor.sequence
    IN  IF e.nodes[seq].parent = NULL THEN [e |-> e, ret |-> FALSE]
        ELSE LET container == e.nodes[seq].parent
                 cp == e.nodes[container].parent
             IN  IF cp /= NULL /\ e.nodes[cp].type = "SEQUENCE"
                 THEN [e |-> [e EXCEPT !.cursor =
                                 [sequence |-> cp,
                                  after |-> e.nodes[container].prev]],
                       ret |-> TRUE]
                 ELSE [e |-> e, ret |-> FALSE]

cursor_exit(e) ==
    LET seq == e.cursor.sequence
    IN  IF e.nodes[seq].parent = NULL THEN [e |-> e, ret |-> FALSE]
        ELSE LET container == e.nodes[seq].parent
                 cp == e.nodes[container].parent
             IN  IF cp /= NULL /\ e.nodes[cp].type = "SEQUENCE"
                 THEN [e |-> [e EXCEPT !.cursor = [sequence |-> cp,
                                                   after |-> container]],
                       ret |-> TRUE]
                 ELSE [e |-> e, ret |-> FALSE]

get_next_slot(ns, container, current_slot) ==
    LET t == ns[container].type
        d == ns[container].data
    IN  CASE t = "FRACTION" /\ current_slot = d.numer  -> d.denom
          [] t = "EXPONENT" /\ current_slot = d.base   -> d.power
          [] t = "SUBSCRIPT" /\ current_slot = d.base  -> d.sub
          [] t = "NTHROOT" /\ current_slot = d.index   -> d.content
          [] t = "MIXED_FRAC" /\ current_slot = d.whole -> d.numer
          [] t = "MIXED_FRAC" /\ current_slot /= d.whole
                              /\ current_slot = d.numer -> d.denom
          [] OTHER -> NULL

get_prev_slot(ns, container, current_slot) ==
    LET t == ns[container].type
        d == ns[container].data
    IN  CASE t = "FRACTION" /\ current_slot = d.denom  -> d.numer
          [] t = "EXPONENT" /\ current_slot = d.power  -> d.base
          [] t = "SUBSCRIPT" /\ current_slot = d.sub   -> d.base
          [] t = "NTHROOT" /\ current_slot = d.content -> d.index
          [] t = "MIXED_FRAC" /\ current_slot = d.denom -> d.numer
          [] t = "MIXED_FRAC" /\ current_slot /= d.denom
                              /\ current_slot = d.numer -> d.whole
          [] OTHER -> NULL

cursor_next_slot(e) ==
    LET seq == e.cursor.sequence
    IN  IF e.nodes[seq].parent = NULL THEN [e |-> e, ret |-> FALSE]
        ELSE LET next == get_next_slot(e.nodes, e.nodes[seq].parent, seq)
             IN  IF next /= NULL /\ e.nodes[next].type = "SEQUENCE"
                 THEN [e |-> [e EXCEPT !.cursor = [sequence |-> next,
                                                   after |-> NULL]],
                       ret |-> TRUE]
                 ELSE [e |-> e, ret |-> FALSE]

(* cursor_prev_slot that lands at the start of the previous slot instead   *)
(* of its end.                                                             *)
cursor_prev_slot_at_start(e) ==
    LET seq == e.cursor.sequence
    IN  IF e.nodes[seq].parent = NULL THEN [e |-> e, ret |-> FALSE]
        ELSE LET prev == get_prev_slot(e.nodes, e.nodes[seq].parent, seq)
             IN  IF prev /= NULL /\ e.nodes[prev].type = "SEQUENCE"
                 THEN [e |-> [e EXCEPT !.cursor = [sequence |-> prev,
                                                   after |-> NULL]],
                       ret |-> TRUE]
                 ELSE [e |-> e, ret |-> FALSE]

cursor_prev_slot(e) ==
    LET seq == e.cursor.sequence
    IN  IF e.nodes[seq].parent = NULL THEN [e |-> e, ret |-> FALSE]
        ELSE LET prev == get_prev_slot(e.nodes, e.nodes[seq].parent, seq)
             IN  IF prev /= NULL /\ e.nodes[prev].type = "SEQUENCE"
                 THEN [e |-> [e EXCEPT !.cursor =
                                 [sequence |-> prev,
                                  after |-> e.nodes[prev].data.last]],
                       ret |-> TRUE]
                 ELSE [e |-> e, ret |-> FALSE]

(* The KEY_LEFT handler of the editor loop after its call of cursor_left   *)
(* (result r): enter the node just passed from the right, or, at the start *)
(* of the sequence, exit to the left of the container.                     *)
KeyLeftThen(r, e) ==
    IF r.ret THEN [e |-> cursor_enter_left(r.e).e, ret |-> TRUE]
    ELSE cursor_exit_left(e)

KeyLeftHandler(e) == KeyLeftThen(cursor_left(e), e)

(***************************************************************************)
(* Editing operations.  The C functions return nothing; the model gives    *)
(* the expression after the call and `ok`, which tells whether the call    *)
(* ran to its end (FALSE: it returned early on a failed allocation).       *)
(***************************************************************************)

(* node->data.<field> = value *)
SetData(e, node, field, value) ==
    [e EXCEPT !.nodes[node].data = [@ EXCEPT ![field] = value]]

SetParent(e, node, parent) ==
    IF node = NULL THEN e ELSE [e EXCEPT !.nodes[node].parent = parent]

(* node->data.<field> = <the node an allocation returned> *)
StoreSlot(a, node, field) == SetData(a.e, node, field, a.node)

(* node->data.<field> = math2_new_sequence(expr) *)
NewSlot(e, node, field) == StoreSlot(math2_new_sequence(e), node, field)

(* node->data.<field>->parent = node *)
AdoptSlot(e, node, field) == SetParent(e, e.nodes[node].data[field], node)

(* seq_insert_after(expr->cursor.sequence, expr->cursor.after, node) *)
LinkAtCursor(e, node) ==
    [e EXCEPT !.nodes = seq_insert_after(e.nodes, e.cursor.sequence,
                                         e.cursor.after, node)]

(* The early return of an insert: nothing more is done. *)
Return(e) == [e |-> e, ok |-> FALSE]

(* math2_insert_text after its allocation. *)
TextLink(a, subtype, text) ==
    IF a.node = NULL THEN Return(a.e)
    ELSE [e |-> math2_clear_modes(
                  [LinkAtCursor([a.e EXCEPT !.nodes[a.node].data =
                                     [subtype |-> subtype, text |-> text]],
                                a.node)
                      EXCEPT !.cursor.after = a.node]),
          ok |-> TRUE]

math2_insert_text(e, subtype, text) ==
    TextLink(math2_alloc_node(e, "TEXT"), subtype, text)

IS_OPERATOR(ns, n) ==
    ns[n].type = "TEXT" /\ ns[n].data.subtype = "OPERATOR"

(* The test of the backward walk without NODE_TEXT. *)
FractionCollects_no_text(type) ==
    type \in {"EXPONENT", "SUBSCRIPT", "PAREN", "FRACTION", "ROOT", "ABS"}

(* The kinds the backward walk of math2_insert_fraction steps over. *)
FractionCollects(type) ==
    type \in {"TEXT", "EXPONENT", "SUBSCRIPT", "PAREN", "FRACTION", "ROOT", "ABS"}

RECURSIVE CollectStart(_, _)
(* The backward walk: the value of collect_start when the loop ends. *)
CollectStart(ns, collect_start) ==
    IF collect_start = NULL THEN NULL
    ELSE IF IS_OPERATOR(ns, collect_start) THEN ns[collect_start].next
    ELSE LET prev == ns[collect_start].prev
         IN  IF prev = NULL THEN collect_start
             ELSE IF IS_OPERATOR(ns, prev) THEN collect_start
             ELSE IF FractionCollects(ns[prev].type)
                  THEN CollectStart(ns, prev)
                  ELSE collect_start

RECURSIVE MoveToNumer(_, _, _, _, _)
RECURSIVE MoveNext(_, _, _, _, _)
(* The move loop inserting every node at the start of the numerator. *)
MoveToNumer_prepends(ns, numer, node, last_inserted, collect_end) ==
    IF node = NULL THEN ns
    ELSE MoveNext(seq_insert_after(seq_remove(ns, node), numer, NULL, node),
                  numer, node, ns[node].next, collect_end)

(* The loop that moves the nodes one by one into the numerator: `node` is  *)
(* removed and inserted after last_inserted; next is node->next as read    *)
(* before the removal.                                                     *)
MoveToNumer(ns, numer, node, last_inserted, collect_end) ==
    IF node = NULL THEN ns
    ELSE MoveNext(seq_insert_after(seq_remove(ns, node), numer,
                                   last_inserted, node),
                  numer, node, ns[node].next, collect_end)

(* if(is_last) break; node = next; *)
MoveNext(ns, numer, node, next, collect_end) ==
    IF node = collect_end THEN ns
    ELSE MoveToNumer(ns, numer, next, node, collect_end)

(* The collection: cursor.after goes before the collected run, the run is  *)
(* moved into the numerator.                                               *)
FractionCollect(e, frac, collect_start, collect_end) ==
    IF collect_start /= NULL /\ collect_end /= NULL
    THEN [e EXCEPT !.cursor.after = e.nodes[collect_start].prev,
                   !.nodes = MoveToNumer(e.nodes, e.nodes[frac].data.numer,
                                         collect_start, NULL, collect_end)]
    ELSE e

(* The choice of the slot the cursor enters. *)
FractionEnter(e, frac) ==
    math2_clear_modes(
        [e EXCEPT !.cursor =
            [sequence |-> IF seq_is_empty(e.nodes, e.nodes[frac].data.numer)
                          THEN e.nodes[frac].data.numer
                          ELSE e.nodes[frac].data.denom,
             after |-> NULL]])

(* math2_insert_fraction after its three allocations. *)
FractionBuild(e, frac) ==
    IF e.nodes[frac].data.numer = NULL \/ e.nodes[frac].data.denom = NULL
    THEN Return(e)
    ELSE [e |-> FractionEnter(
                  LinkAtCursor(
                    FractionCollect(e, frac,
                        CollectStart(e.nodes, e.cursor.after), e.cursor.after),
                    frac),
                  frac),
          ok |-> TRUE]

(* math2_insert_fraction after the allocation of the fraction node. *)
FractionSlots(a) ==
    IF a.node = NULL THEN Return(a.e)
    ELSE FractionBuild(
           AdoptSlot(AdoptSlot(NewSlot(NewSlot(a.e, a.node, "numer"),
                                       a.node, "denom"),
                               a.node, "numer"),
                     a.node, "denom"),
           a.node)

math2_insert_fraction(e) == FractionSlots(math2_alloc_node(e, "FRACTION"))

(* The test of math2_insert_exponent with NODE_SUBSCRIPT added. *)
ExponentCollects_with_subscript(type) ==
    type \in {"TEXT", "FRACTION", "PAREN", "EXPONENT", "ROOT", "SUBSCRIPT"}

(* The kinds math2_insert_exponent takes as base. *)
ExponentCollects(type) ==
    type \in {"TEXT", "FRACTION", "PAREN", "EXPONENT", "ROOT"}

(* prev = cursor.after; cursor.after = prev->prev; seq_remove(prev);        *)
(* seq_insert_after(base, NULL, prev)                                      *)
TakeBase(e, base) ==
    [e EXCEPT !.cursor.after = e.nodes[e.cursor.after].prev,
              !.nodes = seq_insert_after(seq_remove(e.nodes, e.cursor.after),
                                         base, NULL, e.cursor.after)]

(* Link the node at the cursor and move the cursor to the start of `slot`. *)
LinkAndEnter(e, node, slot) ==
    math2_clear_modes([LinkAtCursor(e, node)
                          EXCEPT !.cursor = [sequence |-> slot, after |-> NULL]])

(* math2_insert_exponent after its three allocations. *)
ExponentBuild(e, exp) ==
    IF e.nodes[exp].data.base = NULL \/ e.nodes[exp].data.power = NULL
    THEN Return(e)
    ELSE [e |-> LinkAndEnter(
                  IF e.cursor.after /= NULL
                     /\ ExponentCollects(e.nodes[e.cursor.after].type)
                  THEN TakeBase(e, e.nodes[exp].data.base)
                  ELSE e,
                  exp, e.nodes[exp].data.power),
          ok |-> TRUE]

ExponentSlots(a) ==
    IF a.node = NULL THEN Return(a.e)
    ELSE ExponentBuild(
           AdoptSlot(AdoptSlot(NewSlot(NewSlot(a.e, a.node, "base"),
                                       a.node, "power"),
                               a.node, "base"),
                     a.node, "power"),
           a.node)

math2_insert_exponent(e) == ExponentSlots(math2_alloc_node(e, "EXPONENT"))

(* The test of math2_insert_subscript replaced by that of the exponent. *)
SubscriptCollects_like_exponent(type) ==
    type \in {"TEXT", "FRACTION", "PAREN", "EXPONENT", "ROOT"}

(* The kind math2_insert_subscript takes as base. *)
SubscriptCollects(type) == type = "TEXT"

(* math2_insert_subscript after its three allocations. *)
SubscriptBuild(e, sub) ==
    IF e.nodes[sub].data.base = NULL \/ e.nodes[sub].data.sub = NULL
    THEN Return(e)
    ELSE [e |-> LinkAndEnter(
                  IF e.cursor.after /= NULL
                     /\ SubscriptCollects(e.nodes[e.cursor.after].type)
                  THEN TakeBase(e, e.nodes[sub].data.base)
                  ELSE e,
                  sub, e.nodes[sub].data.sub),
          ok |-> TRUE]

SubscriptSlots(a) ==
    IF a.node = NULL THEN Return(a.e)
    ELSE SubscriptBuild(
           AdoptSlot(AdoptSlot(NewSlot(NewSlot(a.e, a.node, "base"),
                                       a.node, "sub"),
                               a.node, "base"),
                     a.node, "sub"),
           a.node)

math2_insert_subscript(e) == SubscriptSlots(math2_alloc_node(e, "SUBSCRIPT"))

(* The end of the inserts that collect nothing and have one slot, after    *)
(* the allocations: return if the slot is missing, else set its parent,    *)
(* link the node at the cursor and enter the slot.                         *)
OneSlotBuild(e, node, field) ==
    IF e.nodes[node].data[field] = NULL THEN Return(e)
    ELSE [e |-> LinkAndEnter(AdoptSlot(e, node, field), node,
                             e.nodes[node].data[field]),
          ok |-> TRUE]

NthRootSlots(a, n) ==
    IF a.node = NULL THEN Return(a.e)
    ELSE OneSlotBuild(NewSlot(SetData(a.e, a.node, "index", n),
                              a.node, "content"),
                      a.node, "content")

math2_insert_nthroot(e, n) == NthRootSlots(math2_alloc_node(e, "ROOT"), n)

math2_insert_sqrt(e) == math2_insert_nthroot(e, 2)

(* math2_insert_xthroot with the cursor moved into content, not index. *)
XthRootBuild_enters_content(e, root) ==
    IF e.nodes[root].data.index = NULL \/ e.nodes[root].data.content = NULL
    THEN Return(e)
    ELSE [e |-> LinkAndEnter(
                  AdoptSlot(AdoptSlot(e, root, "index"), root, "content"),
                  root, e.nodes[root].data.content),
          ok |-> TRUE]

XthRootBuild(e, root) ==
    IF e.nodes[root].data.index = NULL \/ e.nodes[root].data.content = NULL
    THEN Return(e)
    ELSE [e |-> LinkAndEnter(
                  AdoptSlot(AdoptSlot(e, root, "index"), root, "content"),
                  root, e.nodes[root].data.index),
          ok |-> TRUE]

XthRootSlots(a) ==
    IF a.node = NULL THEN Return(a.e)
    ELSE XthRootBuild(NewSlot(NewSlot(a.e, a.node, "index"),
                              a.node, "content"),
                      a.node)

math2_insert_xthroot(e) == XthRootSlots(math2_alloc_node(e, "NTHROOT"))

MixedFracBuild(e, mf) ==
    IF e.nodes[mf].data.whole = NULL \/ e.nodes[mf].data.numer = NULL
       \/ e.nodes[mf].data.denom = NULL
    THEN Return(e)
    ELSE [e |-> LinkAndEnter(
                  AdoptSlot(AdoptSlot(AdoptSlot(e, mf, "whole"), mf, "numer"),
                            mf, "denom"),
                  mf, e.nodes[mf].data.whole),
          ok |-> TRUE]

MixedFracSlots(a) ==
    IF a.node = NULL THEN Return(a.e)
    ELSE MixedFracBuild(NewSlot(NewSlot(NewSlot(a.e, a.node, "whole"),
                                        a.node, "numer"),
                                a.node, "denom"),
                        a.node)

math2_insert_mixed_frac(e) ==
    MixedFracSlots(math2_alloc_node(e, "MIXED_FRAC"))

(* The end of math2_insert_abs without the check of the content            *)
(* allocation: the node is linked at the cursor even when its slot could   *)
(* not be allocated.                                                       *)
AbsSlots_unchecked(a) ==
    IF a.node = NULL THEN Return(a.e)
    ELSE IF NewSlot(a.e, a.node, "content").nodes[a.node].data.content = NULL
         THEN Return(LinkAtCursor(NewSlot(a.e, a.node, "content"), a.node))
         ELSE OneSlotBuild(NewSlot(a.e, a.node, "content"), a.node, "content")

AbsSlots(a) ==
    IF a.node = NULL THEN Return(a.e)
    ELSE OneSlotBuild(NewSlot(a.e, a.node, "content"), a.node, "content")

math2_insert_abs(e) == AbsSlots(math2_alloc_node(e, "ABS"))

ParenSlots(a) ==
    IF a.node = NULL THEN Return(a.e)
    ELSE OneSlotBuild(NewSlot(a.e, a.node, "content"), a.node, "content")

math2_insert_paren(e) == ParenSlots(math2_alloc_node(e, "PAREN"))

FunctionSlots(a, name) ==
    IF a.node = NULL THEN Return(a.e)
    ELSE OneSlotBuild(NewSlot(SetData(a.e, a.node, "name", name),
                              a.node, "arg"),
                      a.node, "arg")

math2_insert_function(e, name) ==
    FunctionSlots(math2_alloc_node(e, "FUNCTION"), name)

(* math2_delete without the call of math2_free_node: the node is unlinked  *)
(* and stays allocated.                                                    *)
math2_delete_keeps_node(e) ==
    IF e.cursor.after = NULL
    THEN [e |-> cursor_exit(e).e, ok |-> FALSE]
    ELSE [e |-> [e EXCEPT !.cursor.after = e.nodes[e.cursor.after].prev,
                          !.nodes = seq_remove(e.nodes, e.cursor.after)],
          ok |-> TRUE]

(* math2_delete without the step of the cursor to the previous sibling. *)
math2_delete_stale_cursor(e) ==
    IF e.cursor.after = NULL
    THEN [e |-> cursor_exit(e).e, ok |-> FALSE]
    ELSE [e |-> [e EXCEPT !.nodes =
                    math2_free_node(seq_remove(e.nodes, e.cursor.after),
                                    e.cursor.after)],
          ok |-> TRUE]

(* ok: a node was deleted (the C function returns nothing). *)
math2_delete(e) ==
    IF e.cursor.after = NULL
    THEN [e |-> cursor_exit(e).e, ok |-> FALSE]
    ELSE [e |-> FreeNode(
                    [e EXCEPT !.cursor.after = e.nodes[e.cursor.after].prev,
                              !.nodes = seq_remove(e.nodes, e.cursor.after)],
                    e.cursor.after),
          ok |-> TRUE]

(* The root sequence emptied: first = last = NULL. *)
EmptyRoot(ns, root) ==
    [ns EXCEPT ![root].data.first = NULL, ![root].data.last = NULL]

(* math2_clear without the reset of the cursor. *)
math2_clear_keeps_cursor(e) ==
    math2_clear_modes(
        [e EXCEPT !.nodes = EmptyRoot(
                      FreeChildren(e.nodes, e.nodes[e.root].data.first), e.root)])

math2_clear(e) ==
    math2_clear_modes(
        [e EXCEPT !.nodes = EmptyRoot(
                      FreeChildren(e.nodes, e.nodes[e.root].data.first), e.root),
                  !.cursor = [sequence |-> e.root, after |-> NULL]])

(***************************************************************************)
(* LaTeX serializer                                                        *)
(***************************************************************************)

RECURSIVE latex_node(_, _, _)
RECURSIVE latex_sequence(_, _, _)
RECURSIVE LatexChildren(_, _, _)

(* The while loop of latex_sequence. *)
LatexChildren(ns, child, buf) ==
    IF child = NULL THEN buf
    ELSE LatexChildren(ns, ns[child].next, latex_node(ns, child, buf))

latex_sequence(ns, seq, buf) ==
    IF seq = NULL THEN buf
    ELSE IF ns[seq].type /= "SEQUENCE" THEN buf
    ELSE LatexChildren(ns, ns[seq].data.first, buf)

(* snprintf(tmp, sizeof(tmp), "\\sqrt[%d]{", index) for the indices the    *)
(* editor inserts.                                                         *)
(* The prefix of a Root without its index. *)
SqrtIndexPrefix_plain(index) == "\\sqrt{"

SqrtIndexPrefix(index) ==
    CASE index = 3 -> "\\sqrt[3]{"
      [] index = 0 -> "\\sqrt[0]{"
      [] OTHER     -> "\\sqrt[?]{"

latex_node(ns, node, buf) ==
    IF node = NULL THEN buf
    ELSE
    LET t == ns[node].type
        d == ns[node].data
    IN  CASE t = "SEQUENCE" -> latex_sequence(ns, node, buf)
          [] t = "TEXT" ->
               IF d.subtype = "PI" THEN buf \o "\\pi "
               ELSE IF d.subtype = "OPERATOR"
               THEN IF d.text = "×" THEN buf \o "*"
                    ELSE IF d.text = "÷" THEN buf \o "/"
                    ELSE buf \o d.text
               ELSE buf \o d.text
          [] t = "FRACTION" ->
               latex_sequence(ns, d.denom,
                 latex_sequence(ns, d.numer, buf \o "\\frac{") \o "}{") \o "}"
          [] t = "EXPONENT" ->
               latex_sequence(ns, d.power,
                 latex_sequence(ns, d.base, buf \o "{") \o "}^{") \o "}"
          [] t = "SUBSCRIPT" ->
               latex_sequence(ns, d.sub,
                 latex_sequence(ns, d.base, buf \o "{") \o "}_{") \o "}"
          [] t = "ROOT" ->
               latex_sequence(ns, d.content,
                 IF d.index = 2 THEN buf \o "\\sqrt{"
                 ELSE buf \o SqrtIndexPrefix(d.index)) \o "}"
          [] t = "ABS" ->
               latex_sequence(ns, d.content, buf \o "\\left|") \o "\\right|"
          [] t = "PAREN" ->
               latex_sequence(ns, d.content, buf \o "\\left(") \o "\\right)"
          [] t = "FUNCTION" ->
               latex_sequence(ns, d.arg,
                 ((buf \o "\\") \o d.name) \o "\\left(") \o "\\right)"
          [] t = "NTHROOT" ->
               latex_sequence(ns, d.content,
                 latex_sequence(ns, d.index, buf \o "\\sqrt[") \o "]{") \o "}"
          [] t = "MIXED_FRAC" ->
               latex_sequence(ns, d.denom,
                 latex_sequence(ns, d.numer,
                   latex_sequence(ns, d.whole, buf) \o "\\frac{") \o "}{") \o "}"
          [] OTHER -> buf

(* The string the calls of strcat build for math2_to_latex, whatever the   *)
(* capacity of the buffer it is built in.                                  *)
math2_to_latex(e) == latex_sequence(e.nodes, e.root, "")

(* expr->latex and its neighbours after math2_to_latex built `out` with    *)
(* its terminator in the MAX_LATEX bytes of expr->latex: strcat checks no  *)
(* capacity, so a longer string fills the buffer and runs on into          *)
(* shift_mode and alpha_mode, the fields behind it (s, a: what the bytes   *)
(* written there read as).                                                 *)
StoreLatex(e, out, s, a) ==
    IF Len(out) < MAX_LATEX THEN [e EXCEPT !.latex = out]
    ELSE [e EXCEPT !.latex = SubSeq(out, 1, MAX_LATEX),
                   !.shift_mode = s,
                   !.alpha_mode = a]

(***************************************************************************)
(* Rendering: the measure pass and the draw pass.  Of the ink the draw     *)
(* pass paints, the model keeps what the geometry is computed from: the    *)
(* metrics math2_draw_node holds for a slot when it places it (`slots`),   *)
(* the distance draw_sequence advanced over a sequence (`seqs`), the       *)
(* colour of every Paren (`parens`), the placeholder box of every empty    *)
(* slot (`boxes`) and the cursor lines (`lines`), with the paren-depth     *)
(* counter (`depth`) and the least value it took (`low`).                  *)
(***************************************************************************)

CHAR_W == 9

CHAR_H == 14

FRAC_PAD == 4

FRAC_BAR_H == 2

EXP_SCALE == 70

NUM_PAREN_COLORS == 5

PAREN_COLORS == <<"Blue", "Red", "Green", "Purple", "Orange">>

COL_TEXT == "Black"

scale(val, percent) == (val * percent) \div 100

(* strlen of a node text: the symbols outside ASCII take two bytes. *)
strlen(text) == IF text \in {"π", "×", "÷"} THEN 2 ELSE Len(text)

text_width(text, font_scale) == scale(CHAR_W * strlen(text), font_scale)

text_height(font_scale) == scale(CHAR_H, font_scale)

metrics(w, h, b) == [width |-> w, height |-> h, baseline |-> b]

(* if(v < least) v = least *)
AtLeast(v, least) == IF v < least THEN least ELSE v

Larger(a, b) == IF a > b THEN a ELSE b

RECURSIVE math2_measure(_, _, _)
RECURSIVE measure_sequence(_, _, _)
RECURSIVE MeasureChildren(_, _, _, _, _, _)

(* The while loop of measure_sequence: the width and the greatest extents  *)
(* above and below the baseline.                                           *)
MeasureChildren(ns, child, font_scale, width, max_above, max_below) ==
    IF child = NULL THEN <<width, max_above, max_below>>
    ELSE LET cm == math2_measure(ns, child, font_scale)
         IN  MeasureChildren(ns, ns[child].next, font_scale,
                             width + cm.width,
                             Larger(cm.baseline, max_above),
                             Larger(cm.height - cm.baseline, max_below))

measure_sequence(ns, seq, font_scale) ==
    IF seq = NULL THEN metrics(0, 0, 0)
    ELSE IF ns[seq].type /= "SEQUENCE" THEN metrics(0, 0, 0)
    ELSE LET acc == MeasureChildren(ns, ns[seq].data.first, font_scale, 0, 0, 0)
             w == IF acc[1] = 0 THEN 8 ELSE acc[1]
         IN  IF acc[2] + acc[3] = 0
             THEN metrics(w, text_height(font_scale),
                          text_height(font_scale) \div 2)
             ELSE metrics(w, acc[2] + acc[3], acc[2])

math2_measure(ns, node, font_scale) ==
    IF node = NULL THEN metrics(0, 0, 0)
    ELSE
    LET t == ns[node].type
        d == ns[node].data
    IN  CASE t = "SEQUENCE" -> measure_sequence(ns, node, font_scale)
          [] t = "TEXT" ->
               IF d.subtype = "PI"
               THEN metrics(10, text_height(font_scale),
                            text_height(font_scale) \div 2)
               ELSE metrics(text_width(d.text, font_scale),
                            text_height(font_scale),
                            text_height(font_scale) \div 2)
          [] t = "FRACTION" ->
               LET num == math2_measure(ns, d.numer, font_scale)
                   den == math2_measure(ns, d.denom, font_scale)
               IN  metrics(Larger(AtLeast(num.width, 12),
                                  AtLeast(den.width, 12)) + 4,
                           AtLeast(num.height, 10) + FRAC_PAD + FRAC_BAR_H
                             + FRAC_PAD + AtLeast(den.height, 10),
                           AtLeast(num.height, 10) + FRAC_PAD)
          [] t = "EXPONENT" ->
               LET base == math2_measure(ns, d.base, font_scale)
                   power == math2_measure(ns, d.power,
                              AtLeast(scale(font_scale, EXP_SCALE), 60))
               IN  metrics(base.width + AtLeast(power.width, 8) + 4,
                           base.height + AtLeast(power.height, 10) - 4,
                           base.baseline + AtLeast(power.height, 10) - 4)
          [] t = "SUBSCRIPT" ->
               LET base == math2_measure(ns, d.base, font_scale)
                   sub == math2_measure(ns, d.sub,
                                        scale(font_scale, EXP_SCALE))
               IN  metrics(base.width + AtLeast(sub.width, 8),
                           base.height + AtLeast(sub.height, 8) \div 2,
                           base.baseline)
          [] t = "ROOT" ->
               LET content == math2_measure(ns, d.content, font_scale)
                   index_w == IF d.index /= 2 THEN 8 ELSE 0
                   index_h == IF d.index /= 2 THEN 8 ELSE 0
               IN  metrics(index_w + scale(10, font_scale)
                             + AtLeast(content.width, 12) + 2,
                           AtLeast(content.height, 10) + 4 + index_h \div 2,
                           content.baseline + 2 + index_h \div 2)
          [] t = "NTHROOT" ->
               LET idx == math2_measure(ns, d.index, scale(font_scale, 60))
                   content == math2_measure(ns, d.content, font_scale)
               IN  metrics(AtLeast(idx.width, 8) + scale(10, font_scale)
                             + AtLeast(content.width, 12) + 2,
                           AtLeast(content.height, 10) + 4
                             + AtLeast(idx.height, 8) \div 2,
                           content.baseline + 2
                             + AtLeast(idx.height, 8) \div 2)
          [] t = "MIXED_FRAC" ->
               LET whole == math2_measure(ns, d.whole, font_scale)
                   num == math2_measure(ns, d.numer, font_scale)
                   den == math2_measure(ns, d.denom, font_scale)
               IN  metrics(AtLeast(whole.width, 8) + 4
                             + Larger(AtLeast(num.width, 10),
                                      AtLeast(den.width, 10)) + 4,
                           Larger(AtLeast(num.height, 8) + FRAC_PAD
                                    + FRAC_BAR_H + FRAC_PAD
                                    + AtLeast(den.height, 8),
                                  AtLeast(whole.height, 10)),
                           AtLeast(num.height, 8) + FRAC_PAD)
          [] t = "ABS" ->
               LET content == math2_measure(ns, d.content, font_scale)
               IN  metrics(AtLeast(content.width, 8) + 8,
                           AtLeast(content.height, 10) + 4,
                           content.baseline + 2)
          [] t = "PAREN" ->
               LET content == math2_measure(ns, d.content, font_scale)
                   paren_w == 6 + (IF AtLeast(content.height, 10) > 20
                                   THEN 2 ELSE 0)
               IN  metrics(AtLeast(content.width, 8) + paren_w * 2 + 4,
                           AtLeast(content.height, 10) + 4,
                           content.baseline + 2)
          [] t = "FUNCTION" ->
               LET arg == math2_measure(ns, d.arg, font_scale)
                   h == Larger(AtLeast(arg.height, 10),
                               text_height(font_scale))
               IN  metrics(text_width(d.name, font_scale) + 6
                             + AtLeast(arg.width, 8) + 6,
                           h, h \div 2)
          [] OTHER -> metrics(8, 10, 5)

math2_get_width(e) == math2_measure(e.nodes, e.root, 100).width

math2_get_height(e) == math2_measure(e.nodes, e.root, 100).height

(* What a draw has painted so far, with g_color_brackets,                  *)
(* g_cursor_visible and g_paren_depth.                                     *)
NoInk(color_brackets, cursor_visible, depth) ==
    [color_brackets |-> color_brackets, cursor_visible |-> cursor_visible,
     depth |-> depth, low |-> depth,
     parens |-> <<>>, slots |-> <<>>, seqs |-> <<>>,
     boxes |-> <<>>, lines |-> <<>>]

(* draw_placeholder that fills the box of the cursor's slot whatever       *)
(* g_cursor_visible is.                                                    *)
draw_placeholder_ignores_flash(st, slot, is_cursor_here) ==
    [st EXCEPT !.boxes = Append(@, [node |-> slot, filled |-> is_cursor_here])]

(* The box of an empty slot: filled (drect) or bordered (drect_border). *)
draw_placeholder(st, slot, is_cursor_here) ==
    [st EXCEPT !.boxes =
                  Append(@, [node   |-> slot,
                             filled |-> is_cursor_here /\ st.cursor_visible])]

(* The cursor line of sequence seq behind child `after` (at its start when *)
(* after is NULL), drawn when here holds.                                  *)
draw_cursor_line(here, st, seq, after) ==
    IF ~here THEN st
    ELSE IF ~st.cursor_visible THEN st
    ELSE [st EXCEPT !.lines = Append(@, [sequence |-> seq, after |-> after])]

(* PAREN_COLORS[g_paren_depth % NUM_PAREN_COLORS] read as one fixed entry. *)
ParenEnter_one_color(st, node, color_brackets) ==
    [st EXCEPT !.parens =
                  Append(@, [node  |-> node,
                             depth |-> st.depth,
                             color |-> IF color_brackets
                                       THEN PAREN_COLORS[1]
                                       ELSE COL_TEXT]),
               !.depth = @ + 1]

(* The NODE_PAREN case up to g_paren_depth++: the colour is chosen from    *)
(* the counter before it is incremented.                                   *)
ParenEnter(st, node, color_brackets) ==
    [st EXCEPT !.parens =
                  Append(@, [node  |-> node,
                             depth |-> st.depth,
                             color |-> IF color_brackets
                                       THEN PAREN_COLORS[
                                              (st.depth % NUM_PAREN_COLORS) + 1]
                                       ELSE COL_TEXT]),
               !.depth = @ + 1]

(* The NODE_PAREN case without its g_paren_depth--. *)
ParenLeave_keeps_depth(st) == st

(* g_paren_depth-- *)
ParenLeave(st) ==
    [st EXCEPT !.depth = @ - 1,
               !.low = IF st.depth - 1 < @ THEN st.depth - 1 ELSE @]

RECURSIVE math2_draw_node(_, _, _, _, _, _)
RECURSIVE draw_sequence(_, _, _, _, _, _)
RECURSIVE DrawChildren(_, _, _, _, _, _, _, _)
RECURSIVE DrawSlot(_, _, _, _, _, _, _)

(* The while loop of draw_sequence with cx - x, the distance advanced:     *)
(* the width of each child, and 3 behind the child the cursor is after.    *)
DrawChildren(ns, cursor, color_brackets, seq, child, font_scale, cx, st) ==
    IF child = NULL
    THEN [st EXCEPT !.seqs = Append(@, [node |-> seq, scale |-> font_scale,
                                        advance |-> cx])]
    ELSE DrawChildren(ns, cursor, color_brackets, seq, ns[child].next,
                      font_scale,
                      cx + math2_measure(ns, child, font_scale).width
                         + (IF cursor.sequence = seq /\ cursor.after = child
                            THEN 3 ELSE 0),
                      draw_cursor_line(
                        cursor.sequence = seq /\ cursor.after = child,
                        math2_draw_node(ns, cursor, color_brackets, child,
                                        font_scale, st),
                        seq, child))

draw_sequence(ns, cursor, color_brackets, seq, font_scale, st) ==
    IF seq = NULL THEN st
    ELSE IF ns[seq].type /= "SEQUENCE" THEN st
    ELSE DrawChildren(ns, cursor, color_brackets, seq, ns[seq].data.first,
                      font_scale,
                      IF cursor.sequence = seq /\ cursor.after = NULL
                      THEN 3 ELSE 0,
                      draw_cursor_line(
                        cursor.sequence = seq /\ cursor.after = NULL,
                        st, seq, NULL))

(* A slot of a container placed with the metrics m the draw pass holds for *)
(* it: a placeholder box when the slot is empty, its sequence otherwise.   *)
DrawSlot(ns, cursor, color_brackets, slot, font_scale, m, st) ==
    IF seq_is_empty(ns, slot)
    THEN draw_placeholder(
           [st EXCEPT !.slots = Append(@, [node |-> slot, scale |-> font_scale,
                                           m |-> m])],
           slot, cursor.sequence = slot)
    ELSE draw_sequence(ns, cursor, color_brackets, slot, font_scale,
           [st EXCEPT !.slots = Append(@, [node |-> slot, scale |-> font_scale,
                                           m |-> m])])

(* idx.width and idx.height of the NODE_NTHROOT case, whole.width,         *)
(* num.width and den.width of the NODE_MIXED_FRAC case: the clamps the     *)
(* draw pass repeats.                                                      *)
ClampWidth(m, w) == [m EXCEPT !.width = AtLeast(@, w)]

ClampBoth(m, w, h) ==
    [m EXCEPT !.width = AtLeast(@, w), !.height = AtLeast(@, h)]

math2_draw_node(ns, cursor, color_brackets, node, font_scale, st) ==
    IF node = NULL THEN st
    ELSE
    LET t == ns[node].type
        d == ns[node].data
    IN  CASE t = "SEQUENCE" ->
               draw_sequence(ns, cursor, color_brackets, node, font_scale, st)
          [] t = "TEXT" -> st
          [] t = "FRACTION" ->
               DrawSlot(ns, cursor, color_brackets, d.denom, font_scale,
                 math2_measure(ns, d.denom, font_scale),
                 DrawSlot(ns, cursor, color_brackets, d.numer, font_scale,
                   math2_measure(ns, d.numer, font_scale), st))
          [] t = "EXPONENT" ->
               DrawSlot(ns, cursor, color_brackets, d.power,
                 AtLeast(scale(font_scale, EXP_SCALE), 60),
                 math2_measure(ns, d.power,
                               AtLeast(scale(font_scale, EXP_SCALE), 60)),
                 DrawSlot(ns, cursor, color_brackets, d.base, font_scale,
                   math2_measure(ns, d.base, font_scale), st))
          [] t = "SUBSCRIPT" ->
               DrawSlot(ns, cursor, color_brackets, d.sub,
                 scale(font_scale, EXP_SCALE),
                 math2_measure(ns, d.sub, scale(font_scale, EXP_SCALE)),
                 DrawSlot(ns, cursor, color_brackets, d.base, font_scale,
                   math2_measure(ns, d.base, font_scale), st))
          [] t = "ROOT" ->
               DrawSlot(ns, cursor, color_brackets, d.content, font_scale,
                 math2_measure(ns, d.content, font_scale), st)
          [] t = "NTHROOT" ->
               DrawSlot(ns, cursor, color_brackets, d.content, font_scale,
                 math2_measure(ns, d.content, font_scale),
                 DrawSlot(ns, cursor, color_brackets, d.index,
                   scale(font_scale, 60),
                   ClampBoth(math2_measure(ns, d.index, scale(font_scale, 60)),
                             8, 8),
                   st))
          [] t = "MIXED_FRAC" ->
               DrawSlot(ns, cursor, color_brackets, d.denom, font_scale,
                 ClampWidth(math2_measure(ns, d.denom, font_scale), 10),
                 DrawSlot(ns, cursor, color_brackets, d.numer, font_scale,
                   ClampWidth(math2_measure(ns, d.numer, font_scale), 10),
                   DrawSlot(ns, cursor, color_brackets, d.whole, font_scale,
                     ClampWidth(math2_measure(ns, d.whole, font_scale), 8),
                     st)))
          [] t = "ABS" ->
               DrawSlot(ns, cursor, color_brackets, d.content, font_scale,
                 math2_measure(ns, d.content, font_scale), st)
          [] t = "PAREN" ->
               ParenLeave(
                 DrawSlot(ns, cursor, color_brackets, d.content, font_scale,
                   math2_measure(ns, d.content, font_scale),
                   ParenEnter(st, node, color_brackets)))
          [] t = "FUNCTION" ->
               IF seq_is_empty(ns, d.arg)
               THEN draw_placeholder(st, d.arg, cursor.sequence = d.arg)
               ELSE draw_sequence(ns, cursor, color_brackets, d.arg,
                                  font_scale, st)
          [] OTHER -> st

(* math2_draw(expr, x, y) with g_color_brackets, g_cursor_visible and      *)
(* g_paren_depth as they stand when it is called.                          *)
math2_draw(e, color_brackets, cursor_visible, depth) ==
    draw_sequence(e.nodes, e.cursor, color_brackets, e.root, 100,
                  NoInk(color_brackets, cursor_visible, depth))

(***************************************************************************)
(* The key handlers of the editor loop (run_latex_mode).  The loop reads   *)
(* shift = expr->shift_mode and alpha = expr->alpha_mode once per key      *)
(* event; a handler gives the expression and g_alpha_lock it leaves.       *)
(***************************************************************************)

Editor(e, lock) == [e |-> e, lock |-> lock]

(* KEY_SHIFT *)
key_shift(e, lock) == Editor(math2_toggle_shift(e), lock)

(* The SHIFT+ALPHA branch that leaves shift_mode as it is. *)
alpha_lock_toggle_keeps_shift(e, lock) ==
    Editor([e EXCEPT !.alpha_mode = ~lock], ~lock)

(* SHIFT+ALPHA: g_alpha_lock = !g_alpha_lock; alpha_mode = g_alpha_lock;   *)
(* shift_mode = false.                                                     *)
alpha_lock_toggle(e, lock) ==
    Editor([e EXCEPT !.alpha_mode = ~lock, !.shift_mode = FALSE], ~lock)

(* KEY_ALPHA; var is the character show_variable_menu returns, "" for 0. *)
key_alpha(e, lock, var) ==
    IF e.shift_mode THEN alpha_lock_toggle(e, lock)
    ELSE IF lock THEN Editor([e EXCEPT !.alpha_mode = FALSE], FALSE)
    ELSE IF e.alpha_mode
         THEN Editor(math2_clear_modes(
                         IF var /= ""
                         THEN math2_insert_text(e, "VARIABLE", var).e
                         ELSE e),
                     lock)
    ELSE Editor(math2_toggle_alpha(e), lock)

(* KEY_EXIT *)
key_exit(e, lock) ==
    IF e.cursor.sequence /= e.root
    THEN Editor(math2_clear_modes(cursor_exit(e).e), FALSE)
    ELSE IF e.shift_mode \/ e.alpha_mode \/ lock
         THEN Editor(math2_clear_modes(e), FALSE)
    ELSE Editor(e, lock)

(* KEY_1: the letter U under ALPHA or alpha lock, the modes cleared unless *)
(* the lock is on; the digit 1 otherwise.                                  *)
key_1(e, lock) ==
    IF e.alpha_mode \/ lock
    THEN LET typed == math2_insert_text(e, "VARIABLE", "U").e
         IN  Editor(IF ~lock THEN math2_clear_modes(typed) ELSE typed, lock)
    ELSE Editor(math2_insert_text(e, "NUMBER", "1").e, lock)

(* KEY_RIGHT after its call of cursor_enter_right (result r): move right   *)
(* past a node that is no container, or, at the end of the sequence, exit  *)
(* to the right of the container.                                          *)
KeyRightThen(r, e) ==
    IF r.ret THEN r
    ELSE IF cursor_right(e).ret THEN cursor_right(e)
    ELSE cursor_exit_right(e)

KeyRightHandler(e) == KeyRightThen(cursor_enter_right(e), e)

(***************************************************************************)
(* Typing a string over the USB HID keyboard interface.  `kbd` holds the   *)
(* locals of one call of usb_hid_kbd_type_string_cancellable and `pc`, the *)
(* place the call has reached; `sent` is the list of reports committed to  *)
(* the pipe and `progress` the last value given to progress_cb.  Each read *)
(* of usb_is_open_interface and each poll of cancel_cb is an input of the  *)
(* step that makes it.                                                     *)
(***************************************************************************)

(* The modifier byte of a report, as the set of its bits. *)
HID_MOD_LSHIFT == {"LSHIFT"}

(* The characters of the model: a lower-case letter, an upper-case letter  *)
(* and a byte outside ASCII, for which char_to_hid has no mapping.         *)
Chars == {"a", "B", "π"}

char_to_hid(c) ==
    CASE c = "a" -> [ok |-> TRUE, modifiers |-> {}, key |-> "HID_KEY_A"]
      [] c = "B" -> [ok |-> TRUE, modifiers |-> HID_MOD_LSHIFT,
                     key |-> "HID_KEY_B"]
      [] OTHER   -> [ok |-> FALSE, modifiers |-> {}, key |-> "HID_KEY_NONE"]

Report(modifiers, key) == [modifiers |-> modifiers, key |-> key]

Release == Report({}, "HID_KEY_NONE")

(* usb_hid_kbd_send(modifiers, key, 0, 0, 0, 0, 0) when the interface is   *)
(* open or not: -1 and nothing written, or the report committed and 0.     *)
usb_hid_kbd_send(open, sent, modifiers, key) ==
    IF ~open THEN [rc |-> -1, sent |-> sent]
    ELSE [rc |-> 0, sent |-> Append(sent, Report(modifiers, key))]

(* max_idle = timeout_ticks * 8 in uint32_t. *)
MaxIdle(timeout_ticks) == (timeout_ticks % 536870912) * 8

(* No call of usb_hid_kbd_type_string_cancellable is under way. *)
KbdIdle ==
    [pc |-> "idle", str |-> <<>>, timeout_ticks |-> 0, cancel_cb |-> FALSE,
     ptr |-> 0, current |-> 0, idle_count |-> 0, max_idle |-> 0,
     hid |-> char_to_hid(""), sent |-> <<>>, progress |-> 0, ret |-> 0]

(* The call entered with a string that is not NULL, up to the first test  *)
(* of the loop.                                                            *)
KbdCall(str, cancel_cb, timeout_ticks) ==
    [KbdIdle EXCEPT !.pc = "loop", !.str = str, !.cancel_cb = cancel_cb,
                    !.timeout_ticks = timeout_ticks,
                    !.max_idle = MaxIdle(timeout_ticks)]

Returned(k, ret) == [k EXCEPT !.pc = "done", !.ret = ret]

(* progress_cb(current, total) when current % 5 == 0 or current == total. *)
Progress(k) ==
    IF k.current % 5 = 0 \/ k.current = Len(k.str)
    THEN [k EXCEPT !.progress = k.current]
    ELSE k

TimedOut(k) == k.timeout_ticks > 0 /\ k.idle_count >= k.max_idle

(* `continue` after a send that returned rc < 0: a tick of idling is     *)
(* counted and the loop goes on with the character after this one.         *)
SendFailed(k) == [k EXCEPT !.pc = "loop", !.idle_count = @ + 1]

(* One step of the call from k.pc; open is what usb_is_open_interface      *)
(* answers in this step and cancel what cancel_cb answers.                 *)
(*   "loop"    the loop test, the cancel and timeout checks, the fetch of  *)
(*             the next character and char_to_hid                          *)
(*   "check"   if(!usb_is_open_interface(..))                              *)
(*   "wait"    one turn of the loop waiting for the link                   *)
(*   "press"   the key-press report                                        *)
(*   "release" the key-release report, the reset of idle_count and         *)
(*             the progress report                                         *)
usb_hid_kbd_type_string_cancellable(k, open, cancel) ==
    CASE k.pc = "loop" ->
             IF k.ptr = Len(k.str) THEN Returned(k, 0)
             ELSE IF k.cancel_cb /\ cancel THEN Returned(k, -2)
             ELSE IF TimedOut(k) THEN Returned(k, -3)
             ELSE LET c == k.str[k.ptr + 1]
                      fetched == [k EXCEPT !.ptr = @ + 1, !.current = @ + 1,
                                           !.hid = char_to_hid(c)]
                  IN  IF ~char_to_hid(c).ok THEN Progress(fetched)
                      ELSE [fetched EXCEPT !.pc = "check"]
      [] k.pc = "check" ->
             IF open THEN [k EXCEPT !.pc = "press"]
             ELSE [k EXCEPT !.pc = "wait"]
      [] k.pc = "wait" ->
             IF open THEN [k EXCEPT !.pc = "press"]
             ELSE IF k.cancel_cb /\ cancel THEN Returned(k, -2)
             ELSE IF TimedOut(k) THEN Returned(k, -3)
             ELSE [k EXCEPT !.idle_count = @ + 1]
      [] k.pc = "press" ->
             LET s == usb_hid_kbd_send(open, k.sent, k.hid.modifiers, k.hid.key)
             IN  IF s.rc < 0 THEN SendFailed(k)
                 ELSE [k EXCEPT !.pc = "release", !.sent = s.sent]
      [] k.pc = "release" ->
             LET s == usb_hid_kbd_send(open, k.sent, {}, "HID_KEY_NONE")
             IN  IF s.rc < 0 THEN SendFailed(k)
                 ELSE Progress([k EXCEPT !.pc = "loop", !.sent = s.sent,
                                         !.idle_count = 0])
      [] OTHER -> k

(***************************************************************************)
(* Actions: one per public operation.  `last` is a history variable: the   *)
(* operation applied last, its argument, its result and `was`, the values  *)
(* of shift_mode and alpha_mode before it.  An insertion that              *)
(* returned early on a failed allocation is recorded as "insert_failed"    *)
(* whatever its kind, and a cursor operation applied with tr = FALSE as    *)
(* "cursor", so that the history adds few states of its own.  `budget` is  *)
(* the number of editing operations the run may still apply.               *)
(***************************************************************************)

Txt(subtype, text) == [subtype |-> subtype, text |-> text]

Applied(op, arg, e, ret) ==
    /\ expr' = e
    /\ last' = [op |-> op, arg |-> arg, ret |-> ret,
                was |-> <<expr.shift_mode, expr.alpha_mode>>]
    /\ UNCHANGED <<g_paren_depth, kbd>>

Done(op, arg, e, ret) ==
    /\ Applied(op, arg, e, ret)
    /\ UNCHANGED g_alpha_lock

(* A key handler of the editor loop has run and left r. *)
Handled(op, r) ==
    /\ Applied(op, "", r.e, TRUE)
    /\ g_alpha_lock' = r.lock

Edit ==
    /\ budget > 0
    /\ budget' = budget - 1

Inserted(op, arg, r) ==
    /\ Edit
    /\ IF r.ok THEN Done(op, arg, r.e, TRUE)
       ELSE Done("insert_failed", "", r.e, FALSE)

Moved(tr, op, r) ==
    /\ UNCHANGED budget
    /\ IF tr THEN Done(op, "", r.e, r.ret) ELSE Done("cursor", "", r.e, TRUE)

InsertText(T) ==
    \E t \in T :
        Inserted("insert_text", t, math2_insert_text(expr, t.subtype, t.text))

InsertFraction == Inserted("insert_fraction", "", math2_insert_fraction(expr))

InsertExponent == Inserted("insert_exponent", "", math2_insert_exponent(expr))

InsertSubscript == Inserted("insert_subscript", "", math2_insert_subscript(expr))

InsertSqrt == Inserted("insert_sqrt", "", math2_insert_sqrt(expr))

InsertNthRoot(N) ==
    \E n \in N : Inserted("insert_nthroot", n, math2_insert_nthroot(expr, n))

InsertXthRoot == Inserted("insert_xthroot", "", math2_insert_xthroot(expr))

InsertMixedFrac == Inserted("insert_mixed_frac", "", math2_insert_mixed_frac(expr))

InsertAbs == Inserted("insert_abs", "", math2_insert_abs(expr))

InsertParen == Inserted("insert_paren", "", math2_insert_paren(expr))

InsertFunction(F) ==
    \E name \in F :
        Inserted("insert_function", name, math2_insert_function(expr, name))

Delete ==
    /\ Edit
    /\ LET r == math2_delete(expr) IN Done("delete", "", r.e, r.ok)

Clear ==
    /\ Edit
    /\ Done("clear", "", math2_clear(expr), TRUE)

CursorLeft(tr) == Moved(tr, "cursor_left", cursor_left(expr))

CursorRight(tr) == Moved(tr, "cursor_right", cursor_right(expr))

CursorEnter(tr) == Moved(tr, "cursor_enter", cursor_enter(expr))

CursorEnterLeft(tr) == Moved(tr, "cursor_enter_left", cursor_enter_left(expr))

CursorEnterRight(tr) == Moved(tr, "cursor_enter_right", cursor_enter_right(expr))

CursorExit(tr) == Moved(tr, "cursor_exit", cursor_exit(expr))

CursorExitLeft(tr) == Moved(tr, "cursor_exit_left", cursor_exit_left(expr))

CursorExitRight(tr) == Moved(tr, "cursor_exit_right", cursor_exit_right(expr))

CursorNextSlot(tr) == Moved(tr, "cursor_next_slot", cursor_next_slot(expr))

CursorPrevSlot(tr) == Moved(tr, "cursor_prev_slot", cursor_prev_slot(expr))

(* math2_to_latex(expr); recorded with the number of bytes written and    *)
(* whether they fit the buffer.                                            *)
ToLatexWrote(out) ==
    /\ UNCHANGED budget
    /\ \E s, a \in BOOLEAN :
          /\ Len(out) < MAX_LATEX => s = expr.shift_mode /\ a = expr.alpha_mode
          /\ Done("to_latex", Len(out) + 1, StoreLatex(expr, out, s, a),
                  Len(out) < MAX_LATEX)

ToLatex == ToLatexWrote(math2_to_latex(expr))

(* math2_measure(expr->root, font_scale): it reads the tree and returns    *)
(* the metrics.                                                            *)
Measure(S) ==
    \E font_scale \in S :
        /\ UNCHANGED budget
        /\ Done("measure", "", expr,
                [font_scale |-> font_scale,
                 m |-> math2_measure(expr.nodes, expr.root, font_scale)])

GetWidth ==
    /\ UNCHANGED budget
    /\ Done("get_width", "", expr, math2_get_width(expr))

GetHeight ==
    /\ UNCHANGED budget
    /\ Done("get_height", "", expr, math2_get_height(expr))

(* math2_draw has painted r: g_paren_depth is the one thing it assigns. *)
DrawPainted(r) ==
    /\ UNCHANGED <<expr, budget, g_alpha_lock, kbd>>
    /\ g_paren_depth' = r.depth
    /\ last' = [op |-> "draw", arg |-> "", ret |-> r,
                was |-> <<expr.shift_mode, expr.alpha_mode>>]

(* math2_draw(expr, x, y), with g_color_brackets and g_cursor_visible      *)
(* either way.                                                             *)
Draw ==
    \E color_brackets, cursor_visible \in BOOLEAN :
        DrawPainted(math2_draw(expr, color_brackets, cursor_visible,
                               g_paren_depth))

ToggleShift == Moved(TRUE, "toggle_shift", [e |-> math2_toggle_shift(expr), ret |-> TRUE])

ToggleAlpha == Moved(TRUE, "toggle_alpha", [e |-> math2_toggle_alpha(expr), ret |-> TRUE])

CursorOps(tr) ==
    \/ CursorLeft(tr)
    \/ CursorRight(tr)
    \/ CursorEnter(tr)
    \/ CursorEnterLeft(tr)
    \/ CursorEnterRight(tr)
    \/ CursorExit(tr)
    \/ CursorExitLeft(tr)
    \/ CursorExitRight(tr)
    \/ CursorNextSlot(tr)
    \/ CursorPrevSlot(tr)

KeyShift ==
    /\ UNCHANGED budget
    /\ Handled("key_shift", key_shift(expr, g_alpha_lock))

KeyAlpha(V) ==
    /\ Edit
    /\ \E var \in V : Handled("key_alpha", key_alpha(expr, g_alpha_lock, var))

KeyExit ==
    /\ UNCHANGED budget
    /\ Handled("key_exit", key_exit(expr, g_alpha_lock))

Key1 ==
    /\ Edit
    /\ Handled("key_1", key_1(expr, g_alpha_lock))

KeyRight == Moved(TRUE, "key_right", KeyRightHandler(expr))

(* The call of usb_hid_kbd_type_string_cancellable takes its next step    *)
(* from the place at; the editor waits for it to return.                   *)
TypeStep(at, Opens, Cancels) ==
    /\ kbd.pc = at
    /\ \E open \in Opens, cancel \in Cancels :
          kbd' = usb_hid_kbd_type_string_cancellable(kbd, open, cancel)
    /\ UNCHANGED <<expr, last, budget, g_paren_depth, g_alpha_lock>>

TypeLoop == TypeStep("loop", {TRUE}, BOOLEAN)

TypeCheck == TypeStep("check", BOOLEAN, {FALSE})

TypeWait ==
    /\ kbd.timeout_ticks > 0 \/ kbd.idle_count < MaxIdleCount
    /\ TypeStep("wait", BOOLEAN, BOOLEAN)

TypePress == TypeStep("press", BOOLEAN, {FALSE})

TypeRelease == TypeStep("release", BOOLEAN, {FALSE})

(* The editor as math2_init and the start of the program leave it. *)
Made(n) ==
    /\ expr = math2_init
    /\ last = [op |-> "init", arg |-> "", ret |-> TRUE, was |-> <<FALSE, FALSE>>]
    /\ budget = n
    /\ g_paren_depth = 0
    /\ g_alpha_lock = FALSE

(* The state math2_init leaves, with n editing operations to apply and no  *)
(* string being typed.                                                     *)
Start(n) ==
    /\ Made(n)
    /\ kbd = KbdIdle

Init == Start(MaxEdits)

(* Every operation of the editor, over a two-symbol text alphabet. *)
TextKeys == {Txt("NUMBER", "1"), Txt("OPERATOR", "+")}

Next ==
    \/ InsertText(TextKeys)
    \/ InsertFraction
    \/ InsertExponent
    \/ InsertSubscript
    \/ InsertSqrt
    \/ InsertNthRoot({3})
    \/ InsertXthRoot
    \/ InsertMixedFrac
    \/ InsertAbs
    \/ InsertParen
    \/ InsertFunction({"sin"})
    \/ Delete
    \/ Clear
    \/ CursorOps(FALSE)

Spec == Init /\ [][Next]_vars

(* Fraction insertion: a digit and an operator, the fraction, the kinds    *)
(* the collection does not step over, and the cursor moves that place the  *)
(* cursor inside a run or after a container.                               *)
FracKeys == {Txt("NUMBER", "1"), Txt("OPERATOR", "+")}

InitFrac == Start(MaxFracEdits)

NextFrac ==
    \/ InsertText(FracKeys)
    \/ InsertFraction
    \/ InsertFunction({"sin"})
    \/ InsertXthRoot
    \/ InsertMixedFrac
    \/ CursorLeft(FALSE)
    \/ CursorRight(FALSE)
    \/ CursorExitRight(FALSE)

SpecFrac == InitFrac /\ [][NextFrac]_vars

(* Fraction insertion over typed digits. *)
DigitKeys == {Txt("NUMBER", "1"), Txt("NUMBER", "2"), Txt("NUMBER", "3")}

NextDigits ==
    \/ InsertText(DigitKeys)
    \/ InsertFraction
    \/ CursorLeft(FALSE)

SpecDigits == InitFrac /\ [][NextDigits]_vars

(* Exponent and subscript insertion after a sibling of every kind. *)
ExpKeys == {Txt("NUMBER", "1"), Txt("NUMBER", "2")}

SubKeys == {Txt("VARIABLE", "a"), Txt("VARIABLE", "n")}

InitScript == Start(MaxScriptEdits)

NextScript(keys) ==
    \/ InsertText(keys)
    \/ InsertExponent
    \/ InsertSubscript
    \/ InsertFraction
    \/ InsertSqrt
    \/ InsertXthRoot
    \/ InsertMixedFrac
    \/ InsertAbs
    \/ InsertParen
    \/ InsertFunction({"sin"})
    \/ CursorLeft(FALSE)
    \/ CursorExitRight(FALSE)

NextExp == NextScript(ExpKeys)

SpecExp == InitScript /\ [][NextExp]_vars

NextSub == NextScript(SubKeys)

SpecSub == InitScript /\ [][NextSub]_vars

(* Cursor navigation, every cursor operation recorded with its result,    *)
(* over the trees a few inserts build.                                     *)
KeyLeft == Moved(TRUE, "key_left", KeyLeftHandler(expr))

CursorKeys == {Txt("NUMBER", "1")}

InitCursor == Start(MaxCursorEdits)

NextCursor ==
    \/ InsertText(CursorKeys)
    \/ InsertFraction
    \/ InsertExponent
    \/ InsertSubscript
    \/ InsertSqrt
    \/ InsertXthRoot
    \/ InsertMixedFrac
    \/ InsertAbs
    \/ InsertParen
    \/ InsertFunction({"sin"})
    \/ CursorOps(TRUE)
    \/ KeyLeft

SpecCursor == InitCursor /\ [][NextCursor]_vars

(* Building expressions of every node kind and text subtype and           *)
(* serializing them.                                                       *)
LatexKeys ==
    {Txt("NUMBER", "3"), Txt("NUMBER", "8"), Txt("PI", "π"),
     Txt("OPERATOR", "×"), Txt("OPERATOR", "÷"), Txt("OPERATOR", "+")}

InitLatex == Start(MaxLatexEdits)

NextLatex ==
    \/ InsertText(LatexKeys)
    \/ InsertFraction
    \/ InsertExponent
    \/ InsertSubscript
    \/ InsertSqrt
    \/ InsertNthRoot({3})
    \/ InsertXthRoot
    \/ InsertMixedFrac
    \/ InsertAbs
    \/ InsertParen
    \/ InsertFunction({"sin"})
    \/ CursorNextSlot(FALSE)
    \/ CursorExitRight(FALSE)
    \/ ToLatex

SpecLatex == InitLatex /\ [][NextLatex]_vars

(* Editing with the SHIFT and ALPHA toggles. *)
InitModes == Start(MaxModeEdits)

NextModes ==
    \/ ToggleShift
    \/ ToggleAlpha
    \/ InsertText(CursorKeys)
    \/ InsertFraction
    \/ InsertExponent
    \/ InsertSubscript
    \/ InsertSqrt
    \/ InsertNthRoot({3})
    \/ InsertXthRoot
    \/ InsertMixedFrac
    \/ InsertAbs
    \/ InsertParen
    \/ InsertFunction({"sin"})
    \/ Delete
    \/ Clear
    \/ CursorLeft(FALSE)
    \/ CursorExitRight(FALSE)

SpecModes == InitModes /\ [][NextModes]_vars

(* The SHIFT, ALPHA, EXIT and 1 keys with the alpha lock, among the mode   *)
(* toggles, insertions and Clear.                                         *)
InitKeys == Start(MaxKeyEdits)

NextKeys ==
    \/ KeyShift
    \/ KeyAlpha({"", "x"})
    \/ KeyExit
    \/ Key1
    \/ ToggleShift
    \/ ToggleAlpha
    \/ InsertFraction
    \/ InsertExponent
    \/ InsertParen
    \/ Clear

SpecKeys == InitKeys /\ [][NextKeys]_vars

(* The LEFT and RIGHT keys over the trees a few inserts build. *)
InitNav == Start(MaxNavEdits)

NextNav ==
    \/ InsertText(CursorKeys)
    \/ InsertFraction
    \/ InsertExponent
    \/ InsertSubscript
    \/ InsertSqrt
    \/ InsertNthRoot({3})
    \/ InsertXthRoot
    \/ InsertMixedFrac
    \/ InsertAbs
    \/ InsertParen
    \/ InsertFunction({"sin"})
    \/ Delete
    \/ KeyLeft
    \/ KeyRight

SpecNav == InitNav /\ [][NextNav]_vars

RECURSIVE Strings(_)

(* The strings over Chars of length n or less. *)
Strings(n) ==
    IF n = 0 THEN {<<>>}
    ELSE Strings(n - 1)
         \cup {Append(s, c) : s \in {t \in Strings(n - 1) : Len(t) = n - 1},
                              c \in Chars}

(* timeout_ticks: none, one tick, and the least value whose product by 8   *)
(* does not fit uint32_t.                                                  *)
Timeouts == {0, 1, 536870912}

(* One call of usb_hid_kbd_type_string_cancellable, with and without a    *)
(* cancel callback, the link and the callback answering anything.          *)
InitKbd ==
    /\ Made(0)
    /\ \E str \in Strings(MaxStrLen), cancel_cb \in BOOLEAN,
          timeout_ticks \in Timeouts :
          kbd = KbdCall(str, cancel_cb, timeout_ticks)

NextKbd ==
    \/ TypeLoop
    \/ TypeCheck
    \/ TypeWait
    \/ TypePress
    \/ TypeRelease

SpecKbd == InitKbd /\ [][NextKbd]_vars

(* The call runs on one thread with nothing to suspend it: a step that can *)
(* be taken is taken.                                                      *)
FairKbd == SpecKbd /\ WF_vars(NextKbd)

(* Building expressions of every node kind, moving the cursor, and         *)
(* rendering them.                                                         *)
DrawKeys == {Txt("NUMBER", "1")}

FontScales == {100, 70}

InitDraw == Start(MaxDrawEdits)

NextDraw ==
    \/ InsertText(DrawKeys)
    \/ InsertFraction
    \/ InsertExponent
    \/ InsertSubscript
    \/ InsertSqrt
    \/ InsertNthRoot({3})
    \/ InsertXthRoot
    \/ InsertMixedFrac
    \/ InsertAbs
    \/ InsertParen
    \/ InsertFunction({"sin"})
    \/ KeyLeft
    \/ Measure(FontScales)
    \/ GetWidth
    \/ GetHeight
    \/ Draw

SpecDraw == InitDraw /\ [][NextDraw]_vars

(* Building expressions of every node kind and measuring them at the font  *)
(* scales nesting leads to: 100, 70 and 60 (a power), 49 (a sub in a sub)  *)
(* and 11 (a sub at the sixth level: 70, 49, 34, 23, 16, 11).              *)
MeasureScales == {100, 70, 60, 49, 11}

NextMeasure ==
    \/ InsertText(DrawKeys)
    \/ InsertFraction
    \/ InsertExponent
    \/ InsertSubscript
    \/ InsertSqrt
    \/ InsertNthRoot({3})
    \/ InsertXthRoot
    \/ InsertMixedFrac
    \/ InsertAbs
    \/ InsertParen
    \/ InsertFunction({"sin"})
    \/ Measure(MeasureScales)

SpecMeasure == InitDraw /\ [][NextMeasure]_vars

(***************************************************************************)
(* Reading the tree                                                        *)
(***************************************************************************)

Live(ns, n) == ns[n].type /= "EMPTY"

RECURSIVE Chain(_, _, _)
(* The nodes met following `next` from n, at most `fuel` of them. *)
Chain(ns, n, fuel) ==
    IF n = NULL \/ fuel = 0 THEN <<>>
    ELSE <<n>> \o Chain(ns, ns[n].next, fuel - 1)

RECURSIVE ChainBack(_, _, _)
(* The nodes met following `prev` from n, at most `fuel` of them. *)
ChainBack(ns, n, fuel) ==
    IF n = NULL \/ fuel = 0 THEN <<>>
    ELSE <<n>> \o ChainBack(ns, ns[n].prev, fuel - 1)

Reverse(q) == [i \in 1 .. Len(q) |-> q[Len(q) + 1 - i]]

Range(q) == {q[i] : i \in 1 .. Len(q)}

NoRepeat(q) == \A i, j \in 1 .. Len(q) : q[i] = q[j] => i = j

(* The children of a sequence, first to last. *)
Children(ns, seq) == Chain(ns, ns[seq].data.first, MAX_NODES + 1)

(* The slot fields of a container, in slot order. *)
SlotsOf(ns, n) ==
    LET t == ns[n].type
        d == ns[n].data
    IN  CASE t = "FRACTION"   -> <<d.numer, d.denom>>
          [] t = "EXPONENT"   -> <<d.base, d.power>>
          [] t = "SUBSCRIPT"  -> <<d.base, d.sub>>
          [] t = "ROOT"       -> <<d.content>>
          [] t = "NTHROOT"    -> <<d.index, d.content>>
          [] t = "ABS"        -> <<d.content>>
          [] t = "PAREN"      -> <<d.content>>
          [] t = "FUNCTION"   -> <<d.arg>>
          [] t = "MIXED_FRAC" -> <<d.whole, d.numer, d.denom>>
          [] OTHER            -> <<>>

(* The nodes a node links to as children: a sequence's children, a         *)
(* container's slots.                                                      *)
Kids(ns, n) ==
    IF ns[n].type = "SEQUENCE" THEN Children(ns, n)
    ELSE SelectSeq(SlotsOf(ns, n), LAMBDA k : k /= NULL)

RECURSIVE Closure(_, _, _)
Closure(ns, seen, fuel) ==
    LET more == seen \cup UNION {Range(Kids(ns, n)) : n \in seen}
    IN  IF more = seen \/ fuel = 0 THEN seen
        ELSE Closure(ns, more, fuel - 1)

(* The nodes reachable from the root sequence through child/slot links. *)
Reachable(e) == Closure(e.nodes, {e.root}, MAX_NODES)

(* How many child/slot links of reachable nodes point at n. *)
LinksTo(e, n) ==
    LET R == Reachable(e)
        hits == {<<p, i>> \in R \X (1 .. (MAX_NODES + 1)) :
                    /\ i <= Len(Kids(e.nodes, p))
                    /\ Kids(e.nodes, p)[i] = n}
    IN  Cardinality(hits)

(* The tree as the root sees it: every reachable node with its fields. *)
TreeOf(e) == [n \in Reachable(e) |-> e.nodes[n]]

Orphans(e) == {n \in Pool : Live(e.nodes, n)} \ Reachable(e)

(* The siblings before the cursor, first to last. *)
PriorSiblings(e) == Reverse(ChainBack(e.nodes, e.cursor.after, MAX_NODES + 1))

(* The siblings after the cursor, in order. *)
LaterSiblings(e) == Chain(e.nodes, NodeAhead(e), MAX_NODES + 1)

(* The longest run of siblings that ends at the node before the cursor and *)
(* holds no Operator text.                                                 *)
OperatorFreeRun(e) ==
    LET P   == PriorSiblings(e)
        ops == {i \in 1 .. Len(P) : e.nodes[P[i]].type = "TEXT"
                                     /\ e.nodes[P[i]].data.subtype = "OPERATOR"}
        k   == IF ops = {} THEN 0 ELSE CHOOSE i \in ops : \A j \in ops : j <= i
    IN  SubSeq(P, k + 1, Len(P))

(* The node of kind `type` that the step from e to e2 allocated. *)
NewNode(e, e2, type) ==
    CHOOSE n \in Pool : ~Live(e.nodes, n) /\ e2.nodes[n].type = type

(* The stored strings of the Text children of a sequence (another kind     *)
(* shows as its type name).                                                *)
TextsOf(ns, seq) ==
    LET K == Children(ns, seq)
    IN  [i \in 1 .. Len(K) |->
            IF ns[K[i]].type = "TEXT" THEN ns[K[i]].data.text ELSE ns[K[i]].type]

(* Exactly these strings were typed, one Text node each, into an empty     *)
(* expression: they are the root's children, nothing else is allocated,    *)
(* and the cursor is after the last of them.                               *)
Typed(e, texts) ==
    LET K == Children(e.nodes, e.root)
    IN  /\ TextsOf(e.nodes, e.root) = texts
        /\ \A i \in 1 .. Len(K) : e.nodes[K[i]].type = "TEXT"
        /\ {n \in Pool : Live(e.nodes, n)} = {e.root} \cup Range(K)
        /\ e.cursor = [sequence |-> e.root,
                       after |-> IF K = <<>> THEN NULL ELSE K[Len(K)]]

(***************************************************************************)
(* Claims                                                                  *)
(***************************************************************************)

(* C1: in every reachable state cursor.sequence is a live Sequence node    *)
(* reachable from the root, and cursor.after is null or a live node that   *)
(* is linked as a child of that sequence.                                  *)
C1_CursorValid ==
    LET ns == expr.nodes
        c  == expr.cursor
    IN  /\ c.sequence \in Pool
        /\ ns[c.sequence].type = "SEQUENCE"
        /\ c.sequence \in Reachable(expr)
        /\ \/ c.after = NULL
           \/ /\ c.after \in Pool
              /\ Live(ns, c.after)
              /\ c.after \in Range(Children(ns, c.sequence))

(* A Delete has just released a container together with its slot (a pool   *)
(* slot that was a slot sequence is Empty again), and the cursor still has *)
(* a node before it.                                                       *)
C1_Witness ==
    /\ last.op = "delete"
    /\ last.ret
    /\ expr.cursor.after /= NULL
    /\ \E n \in Pool : /\ ~Live(expr.nodes, n)
                       /\ expr.nodes[n].parent /= NULL
                       /\ ~Live(expr.nodes, expr.nodes[n].parent)

(* C2: every non-Empty pool slot is reachable from the root sequence       *)
(* through exactly one chain of child/slot links: no live node is orphaned *)
(* and none is the child of two parents.                                   *)
C2_NoOrphanNoSharing ==
    \A n \in Pool :
        Live(expr.nodes, n) =>
            /\ n \in Reachable(expr)
            /\ LinksTo(expr, n) = (IF n = expr.root THEN 0 ELSE 1)

(* C3: for every Sequence node, following next from first visits each      *)
(* child once and ends at last then null, following prev from last visits  *)
(* the same children in the reverse order and ends at first then null, and *)
(* an empty sequence has first = last = null.                              *)
C3_SeqLinksConsistent ==
    \A s \in Pool :
        expr.nodes[s].type = "SEQUENCE" =>
            LET ns == expr.nodes
                F == Chain(ns, ns[s].data.first, MAX_NODES + 1)
                B == ChainBack(ns, ns[s].data.last, MAX_NODES + 1)
            IN  /\ Len(F) <= MAX_NODES
                /\ NoRepeat(F)
                /\ B = Reverse(F)
                /\ F /= <<>> => F[Len(F)] = ns[s].data.last
                /\ F = <<>> => ns[s].data.first = NULL /\ ns[s].data.last = NULL
                /\ \A i \in 1 .. Len(F) : ns[F[i]].parent = s

(* A Delete has just unlinked a node from a sequence that still has a      *)
(* child.                                                                  *)
C3_Witness ==
    /\ last.op = "delete"
    /\ last.ret
    /\ Len(Children(expr.nodes, expr.cursor.sequence)) >= 1

(* C4: a step in which an insertion returned early on a failed allocation  *)
(* leaves the tree reachable from the root (every node's kind, links and   *)
(* slot fields) and the cursor exactly as they were.                       *)
C4_FailedInsertNoOp ==
    [][last'.op = "insert_failed" =>
          /\ expr'.root = expr.root
          /\ TreeOf(expr') = TreeOf(expr)
          /\ expr'.cursor = expr.cursor]_vars

(* An insertion has just failed at a later allocation (it left its first   *)
(* node behind) on a tree that is not empty.                               *)
C4_Witness ==
    /\ last.op = "insert_failed"
    /\ Orphans(expr) /= {}
    /\ expr.nodes[expr.root].data.first /= NULL

(* The kinds the claims name as collectable by Fraction insert. *)
NumeratorKinds ==
    {"TEXT", "EXPONENT", "SUBSCRIPT", "PAREN", "FRACTION", "ROOT", "ABS"}

C5_Post(e, e2) ==
    LET f   == NewNode(e, e2, "FRACTION")
        got == Children(e2.nodes, e2.nodes[f].data.numer)
        run == OperatorFreeRun(e)
    IN  /\ \A i \in 1 .. Len(got) :
              ~(e2.nodes[got[i]].type = "TEXT"
                /\ e2.nodes[got[i]].data.subtype = "OPERATOR")
        /\ (e.cursor.after /= NULL /\ e.nodes[e.cursor.after].type = "TEXT"
            /\ e.nodes[e.cursor.after].data.subtype = "OPERATOR") => got = <<>>
        /\ Chain(e2.nodes, e2.nodes[f].next, MAX_NODES + 1) = LaterSiblings(e)
        /\ (\A i \in 1 .. Len(run) : e.nodes[run[i]].type \in NumeratorKinds)
              => got = run

(* C5: a Fraction insert moves into the numerator exactly the longest run  *)
(* of siblings that ends at the node before the cursor and holds no        *)
(* Operator text (the run being of collectable kinds): no Operator is      *)
(* collected, an Operator right before the cursor means nothing is         *)
(* collected, and the siblings after the cursor stay, in order, after the  *)
(* new fraction.                                                           *)
C5_OperatorBoundary ==
    [][last'.op = "insert_fraction" => C5_Post(expr, expr')]_vars

C6_Post(e, e2) ==
    LET f      == NewNode(e, e2, "FRACTION")
        got    == Children(e2.nodes, e2.nodes[f].data.numer)
        before == ChainBack(e2.nodes, e2.nodes[f].prev, MAX_NODES + 1)
        P      == PriorSiblings(e)
    IN  /\ \A i \in 1 .. Len(got) : e2.nodes[got[i]].type \in NumeratorKinds
        /\ \A i \in 1 .. Len(P) :
              e.nodes[P[i]].type \notin NumeratorKinds =>
                  /\ P[i] \in Range(before)
                  /\ \A j \in 1 .. i : P[j] \notin Range(got)

(* C6: every node a Fraction insert moves into the numerator is a Text,    *)
(* Exponent, Subscript, Paren, Fraction, Root or Abs; a sibling of another *)
(* kind before the cursor, the one right before it included, is not        *)
(* collected, stops the collection (nothing before it is collected) and    *)
(* stays before the new fraction.                                          *)
C6_CollectableKinds ==
    [][last'.op = "insert_fraction" => C6_Post(expr, expr')]_vars

C7_Post(e, e2) ==
    LET f   == NewNode(e, e2, "FRACTION")
        d   == e2.nodes[f].data
        got == Children(e2.nodes, d.numer)
    IN  /\ e2.cursor.after = NULL
        /\ e2.nodes[f].parent = e.cursor.sequence
        /\ got = <<>> =>
              /\ e2.cursor.sequence = d.numer
              /\ e2.nodes[f].prev = e.cursor.after
              /\ e2.nodes[f].next = NodeAhead(e)
        /\ got /= <<>> =>
              /\ e2.cursor.sequence = d.denom
              /\ e.nodes[got[1]].parent = e.cursor.sequence
              /\ e2.nodes[f].prev = e.nodes[got[1]].prev
              /\ e2.nodes[f].next = e.nodes[got[Len(got)]].next

(* C7: after a successful Fraction insert the cursor is at the start of    *)
(* the new fraction's numerator if no node was collected and at the start  *)
(* of its denominator if one was; the fraction is linked where the         *)
(* collected run was (at the cursor position when nothing was collected).  *)
C7_FractionCursor ==
    [][last'.op = "insert_fraction" => C7_Post(expr, expr')]_vars

(* A Fraction insert has just collected two or more nodes of a run that    *)
(* began after an earlier sibling: the cursor is in the denominator.       *)
C7_Witness ==
    /\ last.op = "insert_fraction"
    /\ expr.nodes[expr.cursor.sequence].parent /= NULL
    /\ LET f == expr.nodes[expr.cursor.sequence].parent
       IN  /\ expr.nodes[f].type = "FRACTION"
           /\ expr.cursor.sequence = expr.nodes[f].data.denom
           /\ Len(Children(expr.nodes, expr.nodes[f].data.numer)) >= 2
           /\ expr.nodes[f].prev /= NULL

(* C8 as stated: "1", "2", "3" typed into an empty expression and then a   *)
(* Fraction insert give a fraction with an empty numerator and an empty    *)
(* denominator and the cursor in the numerator.                            *)
C8_AsStated ==
    [][(Typed(expr, <<"1", "2", "3">>) /\ last'.op = "insert_fraction") =>
          LET f == NewNode(expr, expr', "FRACTION")
              d == expr'.nodes[f].data
          IN  /\ Children(expr'.nodes, d.numer) = <<>>
              /\ Children(expr'.nodes, d.denom) = <<>>
              /\ expr'.cursor.sequence = d.numer]_vars

(* C8 amended: "1", "2", "3" typed into an empty expression and then a     *)
(* Fraction insert give a fraction that is the only child of the root,     *)
(* whose numerator holds "1", "2", "3" in that order and whose denominator *)
(* is empty, with the cursor at the start of the denominator.              *)
C8_DigitsCollected ==
    [][(Typed(expr, <<"1", "2", "3">>) /\ last'.op = "insert_fraction") =>
          LET f == NewNode(expr, expr', "FRACTION")
              d == expr'.nodes[f].data
          IN  /\ Children(expr'.nodes, expr'.root) = <<f>>
              /\ TextsOf(expr'.nodes, d.numer) = <<"1", "2", "3">>
              /\ Children(expr'.nodes, d.denom) = <<>>
              /\ expr'.cursor = [sequence |-> d.denom, after |-> NULL]]_vars

(* The Fraction insert has just been applied to "1", "2", "3". *)
C8_Witness ==
    /\ last.op = "insert_fraction"
    /\ LET K == Children(expr.nodes, expr.root)
       IN  /\ Len(K) = 1
           /\ expr.nodes[K[1]].type = "FRACTION"
           /\ TextsOf(expr.nodes, expr.nodes[K[1]].data.numer) = <<"1", "2", "3">>

(* What an insert that takes at most the sibling before the cursor as base *)
(* leaves: x is the new node, base and slot its two slots, takes tells     *)
(* whether the sibling before the cursor is of a kind the insert takes.    *)
BasePost(e, e2, x, base, slot, takes) ==
    LET p == e.cursor.after
        P == PriorSiblings(e)
    IN  /\ Children(e2.nodes, base) = (IF takes THEN <<p>> ELSE <<>>)
        /\ Children(e2.nodes, slot) = <<>>
        /\ e2.cursor = [sequence |-> slot, after |-> NULL]
        /\ Children(e2.nodes, e.cursor.sequence) =
              (IF takes THEN SubSeq(P, 1, Len(P) - 1) ELSE P)
                  \o <<x>> \o LaterSiblings(e)

C9_Post(e, e2) ==
    LET x == NewNode(e, e2, "EXPONENT")
        p == e.cursor.after
    IN  BasePost(e, e2, x, e2.nodes[x].data.base, e2.nodes[x].data.power,
                 p /= NULL /\ e.nodes[p].type \in
                     {"TEXT", "FRACTION", "PAREN", "EXPONENT", "ROOT"})

(* C9: an Exponent insert moves into the base exactly the sibling before   *)
(* the cursor if that is a Text, Fraction, Paren, Exponent or Root, and    *)
(* nothing otherwise; the exponent takes the place of the collected        *)
(* sibling (or is linked at the cursor), every other sibling keeps its     *)
(* place, and the cursor is at the start of the empty power slot.  Applied *)
(* to "1", "2" typed into an empty expression it gives 1{2}^{}.            *)
C9_ExponentBase ==
    [][last'.op = "insert_exponent" =>
          /\ C9_Post(expr, expr')
          /\ Typed(expr, <<"1", "2">>) => math2_to_latex(expr') = "1{2}^{}"]_vars

(* The Exponent insert has just been applied to "1", "2". *)
C9_Witness ==
    /\ last.op = "insert_exponent"
    /\ Len(Children(expr.nodes, expr.root)) = 2
    /\ math2_to_latex(expr) = "1{2}^{}"

C10_Post(e, e2) ==
    LET x == NewNode(e, e2, "SUBSCRIPT")
        p == e.cursor.after
    IN  BasePost(e, e2, x, e2.nodes[x].data.base, e2.nodes[x].data.sub,
                 p /= NULL /\ e.nodes[p].type = "TEXT")

(* "a" was typed into an empty expression and the Subscript insert has     *)
(* just been applied: the root holds the subscript alone, its base holds   *)
(* "a", and the cursor is at the start of its empty sub slot.              *)
SubscriptOnA(e, l) ==
    /\ l.op = "insert_subscript"
    /\ LET K == Children(e.nodes, e.root)
       IN  /\ Len(K) = 1
           /\ e.nodes[K[1]].type = "SUBSCRIPT"
           /\ TextsOf(e.nodes, e.nodes[K[1]].data.base) = <<"a">>
           /\ Children(e.nodes, e.nodes[K[1]].data.sub) = <<>>
           /\ e.cursor = [sequence |-> e.nodes[K[1]].data.sub, after |-> NULL]

(* C10: a Subscript insert moves into the base exactly the sibling before  *)
(* the cursor if that is a Text node, and nothing otherwise (a container   *)
(* stays in place); the cursor is at the start of the empty sub slot.      *)
(* Insert "a", Subscript, insert "n" serialises to {a}_{n}.                *)
C10_SubscriptBase ==
    [][/\ last'.op = "insert_subscript" =>
             /\ C10_Post(expr, expr')
             /\ Typed(expr, <<"a">>) => SubscriptOnA(expr', last')
       /\ (SubscriptOnA(expr, last) /\ last'.op = "insert_text"
           /\ last'.arg.text = "n") => math2_to_latex(expr') = "{a}_{n}"]_vars

(* "n" has just been typed into the sub slot of the subscript on "a". *)
C10_Witness ==
    /\ last.op = "insert_text"
    /\ math2_to_latex(expr) = "{a}_{n}"

(* The node kind each insert that collects nothing allocates, and the slot *)
(* the claims say the cursor enters.                                       *)
PlainInserts ==
    {[op |-> "insert_sqrt",       type |-> "ROOT",       entry |-> "content"],
     [op |-> "insert_nthroot",    type |-> "ROOT",       entry |-> "content"],
     [op |-> "insert_xthroot",    type |-> "NTHROOT",    entry |-> "index"],
     [op |-> "insert_mixed_frac", type |-> "MIXED_FRAC", entry |-> "whole"],
     [op |-> "insert_abs",        type |-> "ABS",        entry |-> "content"],
     [op |-> "insert_paren",      type |-> "PAREN",      entry |-> "content"],
     [op |-> "insert_function",   type |-> "FUNCTION",   entry |-> "arg"]}

C11_Post(e, e2, k) ==
    LET x == NewNode(e, e2, k.type)
        S == SlotsOf(e2.nodes, x)
        touched == {e.cursor.sequence, e.cursor.after, NodeAhead(e)}
    IN  /\ Children(e2.nodes, e.cursor.sequence) =
              (PriorSiblings(e) \o <<x>>) \o LaterSiblings(e)
        /\ \A i \in 1 .. Len(S) :
              /\ S[i] /= NULL
              /\ e2.nodes[S[i]].type = "SEQUENCE"
              /\ e2.nodes[S[i]].parent = x
              /\ e2.nodes[S[i]].data = [first |-> NULL, last |-> NULL]
        /\ e2.cursor = [sequence |-> e2.nodes[x].data[k.entry], after |-> NULL]
        /\ \A n \in Reachable(e) \ touched : e2.nodes[n] = e.nodes[n]
        /\ \A n \in Reachable(e) :
              /\ e2.nodes[n].type = e.nodes[n].type
              /\ e2.nodes[n].parent = e.nodes[n].parent

(* C11: a Root, NthRoot, MixedFraction, Abs, Paren or Function insert      *)
(* moves no existing sibling: the new container is linked right after      *)
(* cursor.after, each of its slots is an allocated empty sequence, and the *)
(* cursor is at the start of content (Root, Abs, Paren), arg (Function),   *)
(* index (NthRoot) or whole (MixedFraction).  Text typed right after an    *)
(* NthRoot insert goes to its index slot; its content slot stays empty.    *)
C11_PlainInserts ==
    [][/\ \A k \in PlainInserts :
             last'.op = k.op => C11_Post(expr, expr', k)
       /\ (last.op = "insert_xthroot" /\ last'.op = "insert_text") =>
             LET x == expr.nodes[expr.cursor.sequence].parent
                 t == expr'.cursor.after
             IN  /\ expr'.cursor.sequence = expr.nodes[x].data.index
                 /\ Children(expr'.nodes, expr'.nodes[x].data.index) = <<t>>
                 /\ expr'.nodes[t].type = "TEXT"
                 /\ Children(expr'.nodes, expr'.nodes[x].data.content) = <<>>]_vars

(* An NthRoot has just been inserted between two siblings. *)
C11_Witness ==
    /\ last.op = "insert_xthroot"
    /\ LET x == expr.nodes[expr.cursor.sequence].parent
       IN  /\ expr.nodes[x].type = "NTHROOT"
           /\ expr.nodes[x].prev /= NULL
           /\ expr.nodes[x].next /= NULL

(* A node and everything below it. *)
Subtree(e, n) == Closure(e.nodes, {n}, MAX_NODES)

C12_Post(e, e2) ==
    LET seq == e.cursor.sequence
        n   == e.cursor.after
    IN  IF n = NULL
        THEN /\ e2.nodes = e.nodes
             /\ e2.next_free = e.next_free
             /\ e2.root = e.root
             /\ seq = e.root => e2 = e
             /\ seq /= e.root =>
                   LET container == e.nodes[seq].parent
                   IN  \/ e2.cursor = e.cursor
                       \/ e2.cursor = [sequence |-> e.nodes[container].parent,
                                       after |-> container]
        ELSE LET P    == PriorSiblings(e)
                 gone == Subtree(e, n)
                 p    == e.nodes[n].prev
                 x    == e.nodes[n].next
             IN  /\ Children(e2.nodes, seq) =
                       SubSeq(P, 1, Len(P) - 1) \o LaterSiblings(e)
                 /\ \A m \in gone : e2.nodes[m].type = "EMPTY"
                 /\ e2.cursor = [sequence |-> seq, after |-> p]
                 /\ e2.root = e.root
                 /\ \A m \in Pool \ (gone \cup {seq, p, x}) :
                       e2.nodes[m] = e.nodes[m]
                 /\ e2.nodes[seq].type = "SEQUENCE"
                 /\ e2.nodes[seq].parent = e.nodes[seq].parent
                 /\ p /= NULL => e2.nodes[p] = [e.nodes[p] EXCEPT !.next = x]
                 /\ x /= NULL => e2.nodes[x] = [e.nodes[x] EXCEPT !.prev = p]

(* C12: Delete with cursor.after = null releases no node and changes no    *)
(* link; it at most moves the cursor out to the sequence of the enclosing  *)
(* container, and changes nothing at the start of the root sequence.       *)
(* Delete with cursor.after = n unlinks n from the cursor's sequence, sets *)
(* n and every node below it to Empty, sets cursor.after to n's former     *)
(* previous sibling and leaves cursor.sequence and every other node as it  *)
(* was (the two neighbours and the sequence change only in the links that  *)
(* pointed at n).                                                          *)
C12_Delete ==
    [][last'.op = "delete" => C12_Post(expr, expr')]_vars

(* A Delete has just released a container whose slot held a node: three    *)
(* levels (node, slot, container) are Empty again.                         *)
C12_Witness ==
    /\ last.op = "delete"
    /\ last.ret
    /\ \E m \in Pool :
          LET s == expr.nodes[m].parent
          IN  /\ ~Live(expr.nodes, m)
              /\ s /= NULL
              /\ ~Live(expr.nodes, s)
              /\ expr.nodes[s].parent /= NULL
              /\ ~Live(expr.nodes, expr.nodes[s].parent)
              /\ expr.nodes[s].data.first = m

(* C13: Clear sets every node that was below the root sequence to Empty,   *)
(* leaves the root sequence live and empty (first = last = null) and puts  *)
(* the cursor at (root, null), wherever the cursor was.                    *)
C13_Clear ==
    [][last'.op = "clear" =>
          /\ \A n \in Reachable(expr) \ {expr.root} :
                expr'.nodes[n].type = "EMPTY"
          /\ expr'.root = expr.root
          /\ expr'.nodes[expr.root].type = "SEQUENCE"
          /\ expr'.nodes[expr.root].data = [first |-> NULL, last |-> NULL]
          /\ Reachable(expr') = {expr.root}
          /\ expr'.cursor = [sequence |-> expr.root, after |-> NULL]]_vars

(* A Clear has just released a container nested in a slot of another      *)
(* container (the inserts that built them had left the cursor inside the   *)
(* inner one).                                                             *)
C13_Witness ==
    /\ last.op = "clear"
    /\ \E m \in Pool :
          LET c == expr.nodes[m].parent
          IN  /\ ~Live(expr.nodes, m)
              /\ c /= NULL
              /\ ~Live(expr.nodes, c)
              /\ expr.nodes[c].parent /= NULL
              /\ expr.nodes[expr.nodes[c].parent].parent /= NULL
              /\ ~Live(expr.nodes, expr.nodes[expr.nodes[c].parent].parent)

CursorOpNames ==
    {"cursor_left", "cursor_right", "cursor_enter", "cursor_enter_left",
     "cursor_enter_right", "cursor_exit", "cursor_exit_left",
     "cursor_exit_right", "cursor_next_slot", "cursor_prev_slot"}

(* C14: a cursor operation that returns false leaves the expression (the   *)
(* cursor, the tree, the pool) exactly as it was; one that returns true    *)
(* has moved the cursor; and no cursor operation changes a node, the       *)
(* allocation index or the root.                                           *)
C14_CursorOpsReadOnly ==
    [][last'.op \in CursorOpNames =>
          /\ expr'.nodes = expr.nodes
          /\ expr'.next_free = expr.next_free
          /\ expr'.root = expr.root
          /\ ~last'.ret => expr' = expr
          /\ last'.ret => expr'.cursor /= expr.cursor]_vars

(* A slot navigation has just failed inside a container that follows a     *)
(* sibling.                                                                *)
C14_Witness ==
    /\ last.op = "cursor_next_slot"
    /\ ~last.ret
    /\ expr.cursor.sequence /= expr.root
    /\ expr.nodes[expr.nodes[expr.cursor.sequence].parent].prev /= NULL

(* The position of the cursor among the children K of its sequence: 0 at   *)
(* the start, i right after K[i].                                          *)
CursorIndex(e) ==
    LET K == Children(e.nodes, e.cursor.sequence)
    IN  IF e.cursor.after = NULL THEN 0
        ELSE CHOOSE i \in 1 .. Len(K) : K[i] = e.cursor.after

(* C15: cursor_left and cursor_right never change cursor.sequence;         *)
(* cursor_left succeeds exactly when cursor.after is not null and then     *)
(* puts the cursor after the previous sibling (null if none); cursor_right *)
(* succeeds exactly when a sibling follows the cursor and then puts the    *)
(* cursor after it; on an empty sequence both fail.                        *)
C15_LeftRight ==
    [][LET K == Children(expr.nodes, expr.cursor.sequence)
           i == CursorIndex(expr)
       IN  /\ last'.op = "cursor_left" =>
                 /\ expr'.cursor.sequence = expr.cursor.sequence
                 /\ last'.ret <=> expr.cursor.after /= NULL
                 /\ last'.ret =>
                       expr'.cursor.after = (IF i = 1 THEN NULL ELSE K[i - 1])
                 /\ K = <<>> => ~last'.ret
           /\ last'.op = "cursor_right" =>
                 /\ expr'.cursor.sequence = expr.cursor.sequence
                 /\ last'.ret <=> i < Len(K)
                 /\ last'.ret => expr'.cursor.after = K[i + 1]
                 /\ K = <<>> => ~last'.ret]_vars

(* cursor_right has just stepped over the second child of its sequence. *)
C15_Witness ==
    /\ last.op = "cursor_right"
    /\ last.ret
    /\ expr.nodes[expr.cursor.after].prev /= NULL

(* The child of its sequence the cursor stands before, NULL at the end.    *)
ChildAhead(e) ==
    LET K == Children(e.nodes, e.cursor.sequence)
        i == CursorIndex(e)
    IN  IF i < Len(K) THEN K[i + 1] ELSE NULL

(* The slot each kind of container is entered at from the left.            *)
FirstSlotField ==
    [FRACTION |-> "numer", EXPONENT |-> "base", SUBSCRIPT |-> "base",
     ROOT |-> "content", NTHROOT |-> "index", ABS |-> "content",
     PAREN |-> "content", FUNCTION |-> "arg", MIXED_FRAC |-> "whole"]

(* C16: cursor_enter_right moves the cursor to the start of the first      *)
(* editable slot of the node immediately ahead of the cursor (Fraction     *)
(* numer, Exponent base, Subscript base, Root content, NthRoot index,      *)
(* Abs/Paren content, Function arg, MixedFraction whole); it fails and     *)
(* leaves the cursor unchanged when there is no node ahead or that node is *)
(* a Text node.                                                            *)
C16_EnterFromLeft ==
    [][last'.op = "cursor_enter_right" =>
          LET X == ChildAhead(expr)
          IN  IF X = NULL \/ expr.nodes[X].type = "TEXT"
              THEN ~last'.ret /\ expr'.cursor = expr.cursor
              ELSE /\ expr.nodes[X].type \in DOMAIN FirstSlotField
                   /\ last'.ret
                   /\ expr'.cursor =
                         [sequence |->
                             expr.nodes[X].data[FirstSlotField[expr.nodes[X].type]],
                          after |-> NULL]]_vars

(* cursor_enter_right has just entered an NthRoot whose content slot is    *)
(* not empty: the cursor is at the start of the index slot.                *)
C16_Witness ==
    /\ last.op = "cursor_enter_right"
    /\ last.ret
    /\ LET c == expr.nodes[expr.cursor.sequence].parent
       IN  /\ expr.nodes[c].type = "NTHROOT"
           /\ expr.nodes[expr.nodes[c].data.content].data.first /= NULL

(* The slot each kind of container is entered at from the right.           *)
LastSlotField ==
    [FRACTION |-> "denom", EXPONENT |-> "power", SUBSCRIPT |-> "sub",
     ROOT |-> "content", NTHROOT |-> "content", ABS |-> "content",
     PAREN |-> "content", FUNCTION |-> "arg", MIXED_FRAC |-> "denom"]

(* The last child of a sequence, NULL if it has none.                      *)
LastChild(ns, seq) ==
    LET K == Children(ns, seq)
    IN  IF K = <<>> THEN NULL ELSE K[Len(K)]

(* C17: when the Left key is pressed with the cursor right after a node X, *)
(* cursor_left steps past X and cursor_enter_left is applied; if X is a    *)
(* container the cursor ends in X's last editable slot (Fraction denom,    *)
(* Exponent power, Subscript sub, Root and NthRoot content, Abs/Paren      *)
(* content, Function arg, MixedFraction denom) at that slot's end (after   *)
(* its last child, null if the slot is empty); if X is a Text node         *)
(* cursor_enter_left fails and the cursor stays immediately before X.      *)
C17_EnterFromRight ==
    [][last'.op = "key_left" /\ expr.cursor.after /= NULL =>
          LET X == expr.cursor.after
              K == Children(expr.nodes, expr.cursor.sequence)
              i == CursorIndex(expr)
              r == cursor_enter_left(cursor_left(expr).e)
          IN  /\ expr' = r.e
              /\ IF expr.nodes[X].type = "TEXT"
                 THEN /\ ~r.ret
                      /\ expr'.cursor =
                            [sequence |-> expr.cursor.sequence,
                             after |-> IF i = 1 THEN NULL ELSE K[i - 1]]
                 ELSE /\ expr.nodes[X].type \in DOMAIN LastSlotField
                      /\ r.ret
                      /\ LET slot == expr.nodes[X].data[
                                         LastSlotField[expr.nodes[X].type]]
                         IN  expr'.cursor =
                                [sequence |-> slot,
                                 after |-> LastChild(expr.nodes, slot)]]_vars

(* The Left key has just put the cursor at the end of a non-empty          *)
(* denominator of a Fraction (with one Text node in the denominator a Left *)
(* key pressed inside it could only have moved the cursor to its start).   *)
C17_Witness ==
    /\ last.op = "key_left"
    /\ expr.cursor.after /= NULL
    /\ LET c == expr.nodes[expr.cursor.sequence].parent
       IN  /\ c /= NULL
           /\ expr.nodes[c].type = "FRACTION"
           /\ expr.nodes[c].data.denom = expr.cursor.sequence
           /\ Len(Children(expr.nodes, expr.cursor.sequence)) = 1

(* The child before child c of sequence S, NULL if c is the first.         *)
ChildBefore(ns, S, c) ==
    LET K == Children(ns, S)
        i == CHOOSE j \in 1 .. Len(K) : K[j] = c
    IN  IF i = 1 THEN NULL ELSE K[i - 1]

(* In e the cursor's sequence is a slot of container c, and c is a child   *)
(* of sequence S (read from the slot fields and the child chains).         *)
Encloses(e, c, S) ==
    /\ Live(e.nodes, c)
    /\ e.cursor.sequence \in Range(SlotsOf(e.nodes, c))
    /\ e.nodes[S].type = "SEQUENCE"
    /\ c \in Range(Children(e.nodes, S))

(* C18: cursor_exit_right puts the cursor in the sequence that owns the    *)
(* enclosing container, after the container; cursor_exit_left puts it in   *)
(* that sequence after the container's previous sibling (null if none);    *)
(* each succeeds exactly when the cursor's sequence is not the root        *)
(* sequence, and at the root each returns false with the cursor unchanged. *)
C18_ExitToParent ==
    [][/\ last'.op = "cursor_exit_right" =>
             IF expr.cursor.sequence = expr.root
             THEN ~last'.ret /\ expr'.cursor = expr.cursor
             ELSE /\ last'.ret
                  /\ \E c, S \in Pool :
                        /\ Encloses(expr, c, S)
                        /\ expr'.cursor = [sequence |-> S, after |-> c]
       /\ last'.op = "cursor_exit_left" =>
             IF expr.cursor.sequence = expr.root
             THEN ~last'.ret /\ expr'.cursor = expr.cursor
             ELSE /\ last'.ret
                  /\ \E c, S \in Pool :
                        /\ Encloses(expr, c, S)
                        /\ expr'.cursor =
                              [sequence |-> S,
                               after |-> ChildBefore(expr.nodes, S, c)]]_vars

(* cursor_exit_left has just left a container that has a previous sibling. *)
C18_Witness ==
    /\ last.op = "cursor_exit_left"
    /\ last.ret
    /\ expr.cursor.after /= NULL
    /\ expr.nodes[NodeAhead(expr)].type /= "TEXT"

(* The slots of each kind of container in the order the Down key walks     *)
(* them.                                                                   *)
SlotOrder ==
    [FRACTION |-> <<"numer", "denom">>, EXPONENT |-> <<"base", "power">>,
     SUBSCRIPT |-> <<"base", "sub">>, NTHROOT |-> <<"index", "content">>,
     MIXED_FRAC |-> <<"whole", "numer", "denom">>,
     ROOT |-> <<"content">>, ABS |-> <<"content">>, PAREN |-> <<"content">>,
     FUNCTION |-> <<"arg">>]

(* The slot nodes of container c in that order.                            *)
OrderedSlots(ns, c) ==
    [i \in 1 .. Len(SlotOrder[ns[c].type]) |->
        ns[c].data[SlotOrder[ns[c].type][i]]]

(* The step from e to e2, which returned ret, is a move by `dir` (1: next, *)
(* -1: previous) along the slots of the container around the cursor:       *)
(* landing at the start (next) or the end (previous) of the neighbouring   *)
(* slot, or failing without moving the cursor where there is no such slot  *)
(* or the cursor is in the root sequence.                                  *)
C19_Post(e, e2, ret, dir) ==
    IF e.cursor.sequence = e.root
    THEN ~ret /\ e2.cursor = e.cursor
    ELSE \E c \in Pool :
            /\ e.nodes[c].type \in DOMAIN SlotOrder
            /\ LET Q == OrderedSlots(e.nodes, c)
               IN  \E j \in 1 .. Len(Q) :
                      /\ Q[j] = e.cursor.sequence
                      /\ IF j + dir \in 1 .. Len(Q)
                         THEN /\ ret
                              /\ e2.cursor =
                                    [sequence |-> Q[j + dir],
                                     after |-> IF dir = 1 THEN NULL
                                               ELSE LastChild(e.nodes, Q[j + dir])]
                         ELSE ~ret /\ e2.cursor = e.cursor

(* C19: cursor_next_slot moves the cursor, inside its container, along     *)
(* Fraction numer->denom, Exponent base->power, Subscript base->sub,       *)
(* NthRoot index->content, MixedFraction whole->numer->denom, landing at   *)
(* the start of the target slot; cursor_prev_slot moves along the reverse  *)
(* order, landing at the end of the target slot; both fail, leaving the    *)
(* cursor unchanged, in the single-slot containers Root, Abs, Paren and    *)
(* Function, at the last (next) or first (prev) slot of a container, and   *)
(* in the root sequence.                                                   *)
C19_SlotOrder ==
    [][/\ last'.op = "cursor_next_slot" => C19_Post(expr, expr', last'.ret, 1)
       /\ last'.op = "cursor_prev_slot" => C19_Post(expr, expr', last'.ret, -1)]_vars

(* cursor_prev_slot has just moved the cursor from the denominator of a    *)
(* MixedFraction to the end of its non-empty numerator.                    *)
C19_Witness ==
    /\ last.op = "cursor_prev_slot"
    /\ last.ret
    /\ expr.cursor.after /= NULL
    /\ LET c == expr.nodes[expr.cursor.sequence].parent
       IN  /\ expr.nodes[c].type = "MIXED_FRAC"
           /\ expr.nodes[c].data.numer = expr.cursor.sequence

(* The node kinds math2_alloc_node is asked for.                           *)
AllocKinds ==
    {"SEQUENCE", "TEXT", "FRACTION", "EXPONENT", "SUBSCRIPT", "ROOT",
     "NTHROOT", "ABS", "PAREN", "FUNCTION", "MIXED_FRAC"}

(* How many slots after next_free slot n comes in the cyclic scan.         *)
ScanDistance(e, n) == (n + MAX_NODES - e.next_free) % MAX_NODES

(* The link fields a node of each kind has besides parent, next and prev.  *)
LinkFields(type) ==
    IF type = "SEQUENCE" THEN {"first", "last"}
    ELSE IF type \in DOMAIN SlotOrder THEN Range(SlotOrder[type])
    ELSE {}

(* C20: math2_alloc_node returns NULL exactly when no pool slot is Empty;  *)
(* otherwise it returns the first Empty slot met scanning cyclically from  *)
(* next_free, never a live slot, gives it the requested kind with all      *)
(* links and slot fields null, and sets next_free to one past the returned *)
(* slot modulo MAX_NODES (nothing else changes).                           *)
C20_Allocate ==
    \A type \in AllocKinds :
        LET r     == math2_alloc_node(expr, type)
            Empty == {n \in Pool : expr.nodes[n].type = "EMPTY"}
        IN  /\ r.node = NULL <=> Empty = {}
            /\ r.node = NULL => r.e = expr
            /\ r.node /= NULL =>
                  /\ r.node \in Empty
                  /\ \A n \in Empty :
                        ScanDistance(expr, r.node) <= ScanDistance(expr, n)
                  /\ r.e.nodes[r.node].type = type
                  /\ r.e.nodes[r.node].parent = NULL
                  /\ r.e.nodes[r.node].next = NULL
                  /\ r.e.nodes[r.node].prev = NULL
                  /\ \A f \in LinkFields(type) :
                        r.e.nodes[r.node].data[f] = NULL
                  /\ r.e.next_free = (r.node + 1) % MAX_NODES
                  /\ \A n \in Pool \ {r.node} : r.e.nodes[n] = expr.nodes[n]
                  /\ [r.e EXCEPT !.nodes = expr.nodes,
                                 !.next_free = expr.next_free] = expr

(* A Text node has just been allocated and inserted although a slot with   *)
(* a lower index was Empty: the scan started at next_free, not at slot 0.  *)
C20_Witness ==
    /\ last.op = "insert_text"
    /\ expr.cursor.after /= NULL
    /\ \E n \in Pool : /\ n < expr.cursor.after
                       /\ expr.nodes[n].type = "EMPTY"

(* C21: math2_free_node on a live node returns to Empty exactly that node  *)
(* and every node of its subtree (each slot sequence and, recursively,     *)
(* each child of those sequences, for every container kind); the kind of   *)
(* every pool slot outside that subtree and next_free are unchanged.       *)
(* Checked for every live node of every reachable pool.                    *)
C21_Release ==
    \A n \in Pool :
        Live(expr.nodes, n) =>
            LET e2 == FreeNode(expr, n)
                T  == Subtree(expr, n)
            IN  /\ \A m \in Pool :
                      e2.nodes[m].type =
                         IF m \in T THEN "EMPTY" ELSE expr.nodes[m].type
                /\ e2.next_free = expr.next_free

(* A delete has just released a subtree of five nodes (a container, its    *)
(* slots and what was typed into them): six slots were allocated since     *)
(* init and only the root sequence is live.                                *)
C21_Witness ==
    /\ last.op = "delete"
    /\ expr.next_free = 6
    /\ \A n \in Pool \ {expr.root} : expr.nodes[n].type = "EMPTY"

(* C22: math2_free_node applied to an already-Empty node (or to NULL), or  *)
(* a second time to a node just released, changes nothing: no slot kind,   *)
(* no link and not next_free; a following math2_alloc_node returns what it *)
(* would have returned without the extra release.                          *)
C22_ReleaseIdempotent ==
    /\ FreeNode(expr, NULL) = expr
    /\ \A n \in Pool :
          LET once == FreeNode(expr, n)
          IN  /\ ~Live(expr.nodes, n) =>
                    /\ once = expr
                    /\ math2_alloc_node(once, "TEXT")
                          = math2_alloc_node(expr, "TEXT")
              /\ FreeNode(once, n) = once
              /\ math2_alloc_node(FreeNode(once, n), "TEXT")
                    = math2_alloc_node(once, "TEXT")

(* A delete has just released a node: an Empty slot still carries the      *)
(* links or data of the node it held.                                      *)
C22_Witness ==
    /\ last.op = "delete"
    /\ \E n \in Pool : /\ expr.nodes[n].type = "EMPTY"
                       /\ expr.nodes[n] /= ZeroNode("EMPTY")

RECURSIVE RenderNode(_, _)
RECURSIVE RenderAll(_, _)

(* The renderings of the nodes of K, concatenated in order.                *)
RenderAll(ns, K) ==
    IF K = <<>> THEN "" ELSE RenderNode(ns, Head(K)) \o RenderAll(ns, Tail(K))

(* The rendering of a slot: its children in order, "" when it is empty.    *)
RenderSlot(ns, seq) == RenderAll(ns, Children(ns, seq))

Digit(n) == <<"0", "1", "2", "3", "4", "5", "6", "7", "8", "9">>[n + 1]

(* The reference rendering of a node.                                      *)
RenderNode(ns, n) ==
    LET t == ns[n].type
        d == ns[n].data
    IN  CASE t = "TEXT" ->
               (CASE d.subtype = "PI" -> "\\pi "
                  [] d.subtype = "OPERATOR" /\ d.text = "×" -> "*"
                  [] d.subtype = "OPERATOR" /\ d.text = "÷" -> "/"
                  [] OTHER -> d.text)
          [] t = "FRACTION" ->
               "\\frac{" \o RenderSlot(ns, d.numer) \o "}{"
                         \o RenderSlot(ns, d.denom) \o "}"
          [] t = "EXPONENT" ->
               "{" \o RenderSlot(ns, d.base) \o "}^{"
                   \o RenderSlot(ns, d.power) \o "}"
          [] t = "SUBSCRIPT" ->
               "{" \o RenderSlot(ns, d.base) \o "}_{"
                   \o RenderSlot(ns, d.sub) \o "}"
          [] t = "ROOT" /\ d.index = 2 ->
               "\\sqrt{" \o RenderSlot(ns, d.content) \o "}"
          [] t = "ROOT" /\ d.index /= 2 ->
               "\\sqrt[" \o Digit(d.index) \o "]{"
                         \o RenderSlot(ns, d.content) \o "}"
          [] t = "NTHROOT" ->
               "\\sqrt[" \o RenderSlot(ns, d.index) \o "]{"
                         \o RenderSlot(ns, d.content) \o "}"
          [] t = "ABS" ->
               "\\left|" \o RenderSlot(ns, d.content) \o "\\right|"
          [] t = "PAREN" ->
               "\\left(" \o RenderSlot(ns, d.content) \o "\\right)"
          [] t = "FUNCTION" ->
               "\\" \o d.name \o "\\left(" \o RenderSlot(ns, d.arg) \o "\\right)"
          [] t = "MIXED_FRAC" ->
               RenderSlot(ns, d.whole) \o "\\frac{" \o RenderSlot(ns, d.numer)
                   \o "}{" \o RenderSlot(ns, d.denom) \o "}"

(* C23: for every tree math2_to_latex produces the in-order concatenation  *)
(* of the reference rendering (Fraction \frac{num}{den}, Exponent          *)
(* {base}^{power}, Subscript {base}_{sub}, Root \sqrt{content} or          *)
(* \sqrt[n]{content}, NthRoot \sqrt[index]{content}, Abs, Paren, Function, *)
(* MixedFraction whole then \frac, Pi "\pi ", the multiplication and       *)
(* division glyphs as * and /, any other Text its stored string, an empty  *)
(* slot the empty string), and that string is what a call that fits the    *)
(* buffer leaves in expr->latex.                                           *)
C23_LatexRendering ==
    /\ math2_to_latex(expr) = RenderSlot(expr.nodes, expr.root)
    /\ last.op = "to_latex" /\ last.ret =>
          expr.latex = RenderSlot(expr.nodes, expr.root)

(* math2_to_latex has just serialized an NthRoot with index "3" and        *)
(* content "8".                                                            *)
C23_Witness ==
    /\ last.op = "to_latex"
    /\ expr.latex = "\\sqrt[3]{8}"
    /\ \E n \in Pool : expr.nodes[n].type = "NTHROOT"

(* C24: math2_to_latex writes at most MAX_LATEX bytes, terminator          *)
(* included, into expr->latex.                                             *)
C24_LatexFits == last.op = "to_latex" => last.arg <= MAX_LATEX

InsertOpNames ==
    {"insert_text", "insert_fraction", "insert_exponent", "insert_subscript",
     "insert_sqrt", "insert_nthroot", "insert_xthroot", "insert_mixed_frac",
     "insert_abs", "insert_paren", "insert_function"}

(* C25: whenever an insertion operation (text or any structural insert)    *)
(* inserts its node, shift_mode and alpha_mode are both false when it      *)
(* returns, whatever they were before; math2_clear also leaves both false. *)
C25_InsertClearsModes ==
    last.op \in InsertOpNames \cup {"clear"} =>
        ~expr.shift_mode /\ ~expr.alpha_mode

(* An insertion made with ALPHA on has just returned. *)
C25_Witness ==
    /\ last.op \in InsertOpNames
    /\ last.was = <<FALSE, TRUE>>

(* C26 as stated: each toggle inverts its own flag and leaves the other    *)
(* mode flag, the tree, the pool and the cursor unchanged.                 *)
C26_AsStated ==
    [][/\ last'.op = "toggle_shift" =>
             expr' = [expr EXCEPT !.shift_mode = ~expr.shift_mode]
       /\ last'.op = "toggle_alpha" =>
             expr' = [expr EXCEPT !.alpha_mode = ~expr.alpha_mode]]_vars

(* C26, amended: math2_toggle_shift inverts shift_mode and sets alpha_mode *)
(* false, math2_toggle_alpha inverts alpha_mode and sets shift_mode false; *)
(* each leaves the tree, the pool and the cursor unchanged; so toggling    *)
(* the same flag twice restores the mode state exactly when the other flag *)
(* was false.                                                              *)
C26_Toggles ==
    [][/\ last'.op = "toggle_shift" =>
             /\ expr' = [expr EXCEPT !.shift_mode = ~expr.shift_mode,
                                     !.alpha_mode = FALSE]
             /\ math2_toggle_shift(expr') = expr <=> ~expr.alpha_mode
       /\ last'.op = "toggle_alpha" =>
             /\ expr' = [expr EXCEPT !.alpha_mode = ~expr.alpha_mode,
                                     !.shift_mode = FALSE]
             /\ math2_toggle_alpha(expr') = expr <=> ~expr.shift_mode]_vars

(* SHIFT has just been toggled on while ALPHA was on, in a non-empty tree. *)
C26_Witness ==
    /\ last.op = "toggle_shift"
    /\ last.was = <<FALSE, TRUE>>
    /\ expr.shift_mode
    /\ expr.nodes[expr.root].data.first /= NULL

(***************************************************************************)
(* Rendering and serializing as observers (C27)                            *)
(***************************************************************************)

ObserverOps == {"measure", "get_width", "get_height", "draw", "to_latex"}

(* C27: measure, draw, the width and height queries and math2_to_latex     *)
(* leave every node, next_free, the root and the cursor as they were;      *)
(* measure and the queries also leave the paren-depth counter as it was,   *)
(* and math2_to_latex changes nothing but expr->latex.                     *)
C27_Observers ==
    [][last'.op \in ObserverOps =>
          /\ expr'.nodes = expr.nodes
          /\ expr'.next_free = expr.next_free
          /\ expr'.root = expr.root
          /\ expr'.cursor = expr.cursor
          /\ last'.op \in {"measure", "get_width", "get_height"} =>
                 g_paren_depth' = g_paren_depth /\ expr' = expr
          /\ last'.op = "to_latex" =>
                 expr' = [expr EXCEPT !.latex = expr'.latex]]_vars

(* The same for every call but a math2_to_latex whose output does not fit  *)
(* expr->latex.                                                            *)
C27_ObserversWhenFits ==
    [][(last'.op \in ObserverOps
          /\ ~(last'.op = "to_latex" /\ last'.ret = FALSE)) =>
          /\ expr'.nodes = expr.nodes
          /\ expr'.next_free = expr.next_free
          /\ expr'.root = expr.root
          /\ expr'.cursor = expr.cursor
          /\ last'.op \in {"measure", "get_width", "get_height"} =>
                 g_paren_depth' = g_paren_depth /\ expr' = expr
          /\ last'.op = "to_latex" =>
                 expr' = [expr EXCEPT !.latex = expr'.latex]]_vars

(***************************************************************************)
(* The draw pass against the measure pass (C28)                            *)
(***************************************************************************)

RECURSIVE MeasureScale(_, _)

(* The font scale at which the measure pass, started at the root with 100, *)
(* measures node n.                                                        *)
MeasureScale(ns, n) ==
    IF ns[n].parent = NULL THEN 100
    ELSE LET p == ns[n].parent
             t == ns[p].type
             d == ns[p].data
         IN  IF t = "EXPONENT" /\ d.power = n
             THEN AtLeast(scale(MeasureScale(ns, p), EXP_SCALE), 60)
             ELSE IF t = "SUBSCRIPT" /\ d.sub = n
             THEN scale(MeasureScale(ns, p), EXP_SCALE)
             ELSE IF t = "NTHROOT" /\ d.index = n
             THEN scale(MeasureScale(ns, p), 60)
             ELSE MeasureScale(ns, p)

(* The least width and height math2_measure gives the slot of a container. *)
MeasureClamp(ns, slot) ==
    LET t == ns[ns[slot].parent].type
        d == ns[ns[slot].parent].data
    IN  CASE t = "FRACTION"   -> <<12, 10>>
          [] t = "EXPONENT"   -> IF d.power = slot THEN <<8, 10>> ELSE <<0, 0>>
          [] t = "SUBSCRIPT"  -> IF d.sub = slot THEN <<8, 8>> ELSE <<0, 0>>
          [] t = "ROOT"       -> <<12, 10>>
          [] t = "NTHROOT"    -> IF d.index = slot THEN <<8, 8>> ELSE <<12, 10>>
          [] t = "MIXED_FRAC" -> IF d.whole = slot THEN <<8, 10>> ELSE <<10, 8>>
          [] t = "ABS"        -> <<8, 10>>
          [] t = "PAREN"      -> <<8, 10>>
          [] t = "FUNCTION"   -> <<8, 10>>
          [] OTHER            -> <<0, 0>>

(* The metrics of a slot as math2_measure computes with them. *)
MeasuredSlot(ns, slot) ==
    ClampBoth(measure_sequence(ns, slot, MeasureScale(ns, slot)),
              MeasureClamp(ns, slot)[1], MeasureClamp(ns, slot)[2])

(* C28: in every draw, each slot is placed at the font scale and with the  *)
(* width, height and baseline the measure pass computes for it after its   *)
(* clamps, and the distance advanced over the children of a sequence is    *)
(* the measured width of that sequence, wherever the cursor is.            *)
C28_DrawMatchesMeasure ==
    last.op = "draw" =>
        /\ \A i \in DOMAIN last.ret.slots :
              /\ last.ret.slots[i].scale =
                     MeasureScale(expr.nodes, last.ret.slots[i].node)
              /\ last.ret.slots[i].m =
                     MeasuredSlot(expr.nodes, last.ret.slots[i].node)
        /\ \A i \in DOMAIN last.ret.seqs :
              expr.nodes[last.ret.seqs[i].node].data.first /= NULL =>
                  last.ret.seqs[i].advance =
                      measure_sequence(expr.nodes, last.ret.seqs[i].node,
                                       last.ret.seqs[i].scale).width

(* The two parts of C28 apart: the advance over a sequence, and the slots. *)
C28_Advance ==
    last.op = "draw" =>
        \A i \in DOMAIN last.ret.seqs :
            expr.nodes[last.ret.seqs[i].node].data.first /= NULL =>
                last.ret.seqs[i].advance =
                    measure_sequence(expr.nodes, last.ret.seqs[i].node,
                                     last.ret.seqs[i].scale).width

C28_Slots ==
    last.op = "draw" =>
        \A i \in DOMAIN last.ret.slots :
            /\ last.ret.slots[i].scale =
                   MeasureScale(expr.nodes, last.ret.slots[i].node)
            /\ last.ret.slots[i].m =
                   MeasuredSlot(expr.nodes, last.ret.slots[i].node)

C28_SlotScales ==
    last.op = "draw" =>
        \A i \in DOMAIN last.ret.slots :
            last.ret.slots[i].scale =
                MeasureScale(expr.nodes, last.ret.slots[i].node)

(***************************************************************************)
(* Paren colours and the depth counter (C29, C30)                          *)
(***************************************************************************)

(* The draws a Paren colour is checked in: a top-level draw, and the draw  *)
(* of the tree under 1 .. MaxEntryDepth Parens already entered.            *)
MaxEntryDepth == 5

RECURSIVE ParenAncestors(_, _)

(* The number of Paren nodes strictly above n. *)
ParenAncestors(ns, n) ==
    IF ns[n].parent = NULL THEN 0
    ELSE ParenAncestors(ns, ns[n].parent)
           + (IF ns[ns[n].parent].type = "PAREN" THEN 1 ELSE 0)

(* The Paren nodes of the tree. *)
Parens(e) == {n \in Reachable(e) : e.nodes[n].type = "PAREN"}

(* Every Paren of the tree is painted once in r, in the colour `color`     *)
(* gives for it.                                                           *)
PaintedParens(e, r, color(_)) ==
    /\ {r.parens[i].node : i \in DOMAIN r.parens} = Parens(e)
    /\ Len(r.parens) = Cardinality(Parens(e))
    /\ \A i \in DOMAIN r.parens : r.parens[i].color = color(r.parens[i].node)

(* C29: a draw with bracket colouring on paints each Paren with the        *)
(* palette entry (number of its Paren ancestors) mod 5, and a draw with    *)
(* colouring off with the text colour; the entry wraps around below the    *)
(* fifth level, as the draws of the same tree under 1 .. MaxEntryDepth     *)
(* levels already entered show.                                            *)
C29_ParenColors ==
    last.op = "draw" =>
        IF last.ret.color_brackets
        THEN /\ PaintedParens(expr, last.ret,
                    LAMBDA n : PAREN_COLORS[
                                 (ParenAncestors(expr.nodes, n)
                                    % NUM_PAREN_COLORS) + 1])
             /\ \A k \in 1 .. MaxEntryDepth :
                    PaintedParens(expr, math2_draw(expr, TRUE, TRUE, k),
                        LAMBDA n : PAREN_COLORS[
                                     ((k + ParenAncestors(expr.nodes, n))
                                        % NUM_PAREN_COLORS) + 1])
        ELSE PaintedParens(expr, last.ret, LAMBDA n : COL_TEXT)

(* The colour the draw r gave Paren n. *)
PaintedColor(r, n) ==
    LET i == CHOOSE j \in DOMAIN r.parens : r.parens[j].node = n
    IN  r.parens[i].color

(* Three nested Parens, the outer two with something else beside the       *)
(* inner one or between them, have just been drawn in palette entries 0,   *)
(* 1 and 2; under three more levels the innermost is the sixth level and   *)
(* takes entry 0 again.                                                    *)
C29_Witness ==
    /\ last.op = "draw"
    /\ last.ret.color_brackets
    /\ \E a, b, c \in Parens(expr) :
          /\ ParenAncestors(expr.nodes, a) = 0
          /\ ParenAncestors(expr.nodes, b) = 1
          /\ ParenAncestors(expr.nodes, c) = 2
          /\ PaintedColor(last.ret, a) = "Blue"
          /\ PaintedColor(last.ret, b) = "Red"
          /\ PaintedColor(last.ret, c) = "Green"
          /\ PaintedColor(math2_draw(expr, TRUE, TRUE, 3), c) = "Blue"

(* Two Parens side by side have just been drawn in the same colour. *)
C29_Siblings ==
    /\ last.op = "draw"
    /\ last.ret.color_brackets
    /\ \E a, b \in Parens(expr) :
          /\ a /= b
          /\ expr.nodes[a].parent = expr.nodes[b].parent
          /\ PaintedColor(last.ret, a) = PaintedColor(last.ret, b)

(* C30: the paren-depth counter is 0 whenever an operation has returned,   *)
(* so every top-level draw starts with it at 0, whatever was drawn before, *)
(* and leaves it at 0; and it was never negative during a draw.            *)
C30_DepthBalanced ==
    /\ g_paren_depth = 0
    /\ last.op = "draw" => last.ret.depth = 0 /\ last.ret.low >= 0

(* A draw of nested Parens has just completed, the counter back at 0. *)
C30_Witness ==
    /\ last.op = "draw"
    /\ Len(last.ret.parens) >= 2
    /\ \E i \in DOMAIN last.ret.parens : last.ret.parens[i].depth = 1
    /\ g_paren_depth = 0

(***************************************************************************)
(* Placeholders and the cursor indication (C31)                            *)
(***************************************************************************)

(* The empty slots of the containers of the tree. *)
EmptySlots(e) ==
    {n \in Reachable(e) : n /= e.root /\ seq_is_empty(e.nodes, n)}

(* The indices of the filled boxes of a draw. *)
FilledBoxes(r) == {i \in DOMAIN r.boxes : r.boxes[i].filled}

(* C31: a draw paints one placeholder box for every empty slot of the      *)
(* tree, filled exactly when the cursor is in the slot and the cursor is   *)
(* visible; it paints a cursor line only in the cursor's sequence, at      *)
(* cursor.after, and only when the cursor is visible; so it paints exactly *)
(* one cursor indication when the cursor is visible and none otherwise.    *)
C31_CursorIndication ==
    last.op = "draw" =>
        /\ {last.ret.boxes[i].node : i \in DOMAIN last.ret.boxes}
              = EmptySlots(expr)
        /\ Len(last.ret.boxes) = Cardinality(EmptySlots(expr))
        /\ \A i \in DOMAIN last.ret.boxes :
              last.ret.boxes[i].filled <=>
                  (/\ expr.cursor.sequence = last.ret.boxes[i].node
                   /\ last.ret.cursor_visible)
        /\ \A i \in DOMAIN last.ret.lines :
              /\ last.ret.cursor_visible
              /\ last.ret.lines[i].sequence = expr.cursor.sequence
              /\ last.ret.lines[i].after = expr.cursor.after
        /\ Cardinality(FilledBoxes(last.ret)) + Len(last.ret.lines)
              = IF last.ret.cursor_visible THEN 1 ELSE 0

(* A draw with the cursor visible has just painted a filled box for the    *)
(* cursor's empty slot and a bordered box for another empty slot.          *)
C31_Witness ==
    /\ last.op = "draw"
    /\ last.ret.cursor_visible
    /\ Len(last.ret.boxes) >= 2
    /\ Cardinality(FilledBoxes(last.ret)) = 1
    /\ last.ret.lines = <<>>

(* A draw with the cursor visible has just painted the cursor line between *)
(* two children of a slot, beside a bordered box.                          *)
C31_WitnessLine ==
    /\ last.op = "draw"
    /\ last.ret.cursor_visible
    /\ Len(last.ret.lines) = 1
    /\ last.ret.lines[1].after /= NULL
    /\ expr.nodes[last.ret.lines[1].after].next /= NULL
    /\ last.ret.boxes /= <<>>

(***************************************************************************)
(* The metrics of a sequence (C32)                                         *)
(***************************************************************************)

RECURSIVE SumOf(_)

(* The sum of a sequence of numbers. *)
SumOf(q) == IF q = <<>> THEN 0 ELSE Head(q) + SumOf(Tail(q))

(* The greatest of a non-empty sequence of numbers. *)
GreatestOf(q) ==
    CHOOSE m \in {q[i] : i \in DOMAIN q} : \A i \in DOMAIN q : q[i] <= m

(* The metrics of the children of seq at font_scale, in order. *)
ChildMetrics(ns, seq, font_scale) ==
    [i \in DOMAIN Children(ns, seq) |->
        math2_measure(ns, Children(ns, seq)[i], font_scale)]

(* What the sequence rule gives for the children metrics cm. *)
SequenceRule(cm, font_scale) ==
    IF cm = <<>>
    THEN metrics(8, (14 * font_scale) \div 100,
                 ((14 * font_scale) \div 100) \div 2)
    ELSE metrics(SumOf([i \in DOMAIN cm |-> cm[i].width]),
                 GreatestOf([i \in DOMAIN cm |-> cm[i].baseline])
                   + GreatestOf([i \in DOMAIN cm |->
                                   cm[i].height - cm[i].baseline]),
                 GreatestOf([i \in DOMAIN cm |-> cm[i].baseline]))

(* The sequences of the tree. *)
Sequences(e) == {n \in Reachable(e) : e.nodes[n].type = "SEQUENCE"}

(* C32: at every font scale, measure gives a sequence the sum of the       *)
(* widths of its children, their greatest baseline, and that baseline plus *)
(* their greatest height below the baseline; an empty sequence gets width  *)
(* 8, the scaled glyph height and half of it as baseline.                  *)
C32_SequenceMetrics ==
    \A seq \in Sequences(expr) : \A font_scale \in MeasureScales :
        measure_sequence(expr.nodes, seq, font_scale)
          = SequenceRule(ChildMetrics(expr.nodes, seq, font_scale), font_scale)

(* The same with the one exception the code makes: a sequence whose widths *)
(* sum to 0 gets width 8, empty or not.                                    *)
C32_SequenceMetricsOrMinimum ==
    \A seq \in Sequences(expr) : \A font_scale \in MeasureScales :
        LET rule == SequenceRule(ChildMetrics(expr.nodes, seq, font_scale),
                                 font_scale)
        IN  measure_sequence(expr.nodes, seq, font_scale)
              = IF rule.width = 0 THEN [rule EXCEPT !.width = 8] ELSE rule

(***************************************************************************)
(* The reduced scale of powers and subs (C33)                              *)
(***************************************************************************)

RECURSIVE DrawnScale(_, _, _)

(* The font scale at which the draw r drew sequence seq: 100 for the root, *)
(* the scale of its slot otherwise (the argument of a Function is drawn at *)
(* the scale of the Function).                                             *)
DrawnScale(r, e, seq) ==
    IF seq = e.root THEN 100
    ELSE IF e.nodes[e.nodes[seq].parent].type = "FUNCTION"
    THEN DrawnScale(r, e, e.nodes[e.nodes[seq].parent].parent)
    ELSE r.slots[CHOOSE i \in DOMAIN r.slots : r.slots[i].node = seq].scale

(* The power slots of the Exponents and the sub slots of the Subscripts of *)
(* the tree.                                                               *)
ReducedSlots(e) ==
    {n \in Sequences(e) :
        /\ n /= e.root
        /\ \/ /\ e.nodes[e.nodes[n].parent].type = "EXPONENT"
              /\ e.nodes[e.nodes[n].parent].data.power = n
           \/ /\ e.nodes[e.nodes[n].parent].type = "SUBSCRIPT"
              /\ e.nodes[e.nodes[n].parent].data.sub = n}

(* The sequence a slot's container stands in. *)
Enclosing(e, slot) == e.nodes[e.nodes[slot].parent].parent

(* C33: a draw draws, and the measure pass measures, the sub of every      *)
(* Subscript as the power of every Exponent: at 70 percent of the scale of *)
(* the enclosing sequence, and at 60 when that is less than 60.            *)
C33_ReducedScale ==
    last.op = "draw" =>
        \A n \in ReducedSlots(expr) :
            /\ DrawnScale(last.ret, expr, n)
                  = AtLeast(scale(DrawnScale(last.ret, expr,
                                             Enclosing(expr, n)),
                                  EXP_SCALE), 60)
            /\ MeasureScale(expr.nodes, n)
                  = AtLeast(scale(MeasureScale(expr.nodes,
                                               Enclosing(expr, n)),
                                  EXP_SCALE), 60)

(* The same for the power slots alone. *)
C33_PowerScale ==
    last.op = "draw" =>
        \A n \in ReducedSlots(expr) :
            expr.nodes[expr.nodes[n].parent].type = "EXPONENT" =>
                /\ DrawnScale(last.ret, expr, n)
                      = AtLeast(scale(DrawnScale(last.ret, expr,
                                                 Enclosing(expr, n)),
                                      EXP_SCALE), 60)
                /\ MeasureScale(expr.nodes, n) = DrawnScale(last.ret, expr, n)

(* The sub slots: 70 percent of the enclosing scale, with no floor. *)
C33_SubScale ==
    last.op = "draw" =>
        \A n \in ReducedSlots(expr) :
            expr.nodes[expr.nodes[n].parent].type = "SUBSCRIPT" =>
                /\ DrawnScale(last.ret, expr, n)
                      = scale(DrawnScale(last.ret, expr, Enclosing(expr, n)),
                              EXP_SCALE)
                /\ MeasureScale(expr.nodes, n) = DrawnScale(last.ret, expr, n)

(***************************************************************************)
(* The pool after Clear (C34)                                              *)
(***************************************************************************)

(* C34: after Clear every pool slot but the root's is Empty. *)
C34_ClearEmptiesPool ==
    last.op = "clear" =>
        \A n \in Pool \ {expr.root} : expr.nodes[n].type = "EMPTY"

(* After Clear every node of the tree but the root is Empty: the slots     *)
(* that stay allocated are those of nodes that were not linked in the tree.*)
C34_ClearEmptiesTree ==
    [][last'.op = "clear" =>
          /\ Reachable(expr') = {expr'.root}
          /\ \A n \in Pool \ {expr'.root} :
                 Live(expr'.nodes, n) <=> n \in Orphans(expr)]_vars

(***************************************************************************)
(* Insertions keep the nodes and the reading order (C35)                   *)
(***************************************************************************)

RECURSIVE TextsUnder(_, _)
RECURSIVE TextsOfAll(_, _)

(* The Text leaves below the nodes of q, in order. *)
TextsOfAll(ns, q) ==
    IF q = <<>> THEN <<>>
    ELSE TextsUnder(ns, Head(q)) \o TextsOfAll(ns, Tail(q))

(* The Text leaves below n in reading order: the children of a sequence    *)
(* first to last, the slots of a container in slot order.                  *)
TextsUnder(ns, n) ==
    IF n = NULL THEN <<>>
    ELSE IF ns[n].type = "TEXT" THEN <<n>>
    ELSE IF ns[n].type = "SEQUENCE" THEN TextsOfAll(ns, Children(ns, n))
    ELSE TextsOfAll(ns, SlotsOf(ns, n))

(* q without the elements outside S. *)
Only(q, S) == SelectSeq(q, LAMBDA x : x \in S)

(* C35: an insertion, also one that failed on the exhausted pool, keeps    *)
(* every node that was live, with its kind and its text, keeps in the tree *)
(* every node that was in the tree, and keeps the Text leaves that were in *)
(* the tree in their reading order.                                        *)
C35_InsertKeepsOrder ==
    [][last'.op \in InsertOpNames \cup {"insert_failed"} =>
          /\ \A n \in Pool :
                 Live(expr.nodes, n) =>
                     /\ expr'.nodes[n].type = expr.nodes[n].type
                     /\ expr.nodes[n].type = "TEXT" =>
                            expr'.nodes[n].data = expr.nodes[n].data
          /\ Reachable(expr) \subseteq Reachable(expr')
          /\ Only(TextsUnder(expr'.nodes, expr'.root), Reachable(expr))
                = TextsUnder(expr.nodes, expr.root)]_vars

(* A Fraction has just been inserted behind two Text nodes and holds both  *)
(* in its numerator.                                                       *)
C35_Witness ==
    /\ last.op = "insert_fraction"
    /\ \E f \in Reachable(expr) :
          /\ expr.nodes[f].type = "FRACTION"
          /\ Len(TextsUnder(expr.nodes, expr.nodes[f].data.numer)) = 2
          /\ expr.cursor.sequence = expr.nodes[f].data.denom

(***************************************************************************)
(* SHIFT and ALPHA exclude each other (C36)                                *)
(***************************************************************************)

(* C36: shift_mode and alpha_mode are never both true, after init and      *)
(* after every toggle, insertion, Clear and key handler of the editor      *)
(* loop, the alpha lock included.                                          *)
C36_ModesExclusive == ~(expr.shift_mode /\ expr.alpha_mode)

(* SHIFT then ALPHA has just switched the alpha lock on. *)
C36_Witness ==
    /\ last.op = "key_alpha"
    /\ last.was = <<TRUE, FALSE>>
    /\ g_alpha_lock
    /\ expr.alpha_mode

(* SHIFT has been pressed while the alpha lock is on. *)
C36_WitnessShiftUnderLock ==
    /\ last.op = "key_shift"
    /\ g_alpha_lock
    /\ expr.shift_mode

(***************************************************************************)
(* The RIGHT and LEFT keys make progress (C37)                             *)
(***************************************************************************)

RECURSIVE Presses(_, _, _, _)

(* The key whose handler is Press(_) pressed again and again from e until  *)
(* a press leaves the cursor where it is: `fresh` tells whether every      *)
(* press before that one led to a cursor position not in `seen` and not    *)
(* visited earlier in the run, `e` is the expression at the end and `n`    *)
(* the number of presses that moved the cursor.                            *)
Presses(Press(_), e, seen, n) ==
    LET next == Press(e).e
    IN  IF next.cursor = e.cursor THEN [fresh |-> TRUE, e |-> e, n |-> n]
        ELSE IF next.cursor \in seen THEN [fresh |-> FALSE, e |-> next, n |-> n]
        ELSE Presses(Press, next, seen \cup {next.cursor}, n + 1)

EndOfRoot(e) == [sequence |-> e.root, after |-> e.nodes[e.root].data.last]

StartOfRoot(e) == [sequence |-> e.root, after |-> NULL]

RightRun == Presses(KeyRightHandler, expr, {expr.cursor}, 0)

LeftRun == Presses(KeyLeftHandler, expr, {expr.cursor}, 0)

(* C37: from every reachable state, RIGHT pressed repeatedly visits no     *)
(* cursor position twice and comes to rest at the end of the root          *)
(* sequence, where a further press changes nothing; LEFT pressed           *)
(* repeatedly does the same towards the start of the root sequence.        *)
C37_KeysReachTheEnds ==
    /\ RightRun.fresh
    /\ RightRun.e.cursor = EndOfRoot(expr)
    /\ KeyRightHandler(RightRun.e).e = RightRun.e
    /\ LeftRun.fresh
    /\ LeftRun.e.cursor = StartOfRoot(expr)
    /\ KeyLeftHandler(LeftRun.e).e = LeftRun.e

(* The same for RIGHT alone. *)
C37_RightReachesEnd ==
    /\ RightRun.fresh
    /\ RightRun.e.cursor = EndOfRoot(expr)

(* The same for LEFT alone. *)
C37_LeftReachesStart ==
    /\ LeftRun.fresh
    /\ LeftRun.e.cursor = StartOfRoot(expr)

(* RIGHT has just been pressed in a tree where four more presses are       *)
(* needed to reach the end of the root sequence.                           *)
C37_Witness ==
    /\ last.op = "key_right"
    /\ RightRun.n >= 4
    /\ LeftRun.n >= 2

(***************************************************************************)
(* Entering and leaving a container (C38)                                  *)
(***************************************************************************)

StructuralInsertOps == InsertOpNames \ {"insert_text"}

ContainerTypes ==
    {"FRACTION", "EXPONENT", "SUBSCRIPT", "ROOT", "NTHROOT", "MIXED_FRAC",
     "ABS", "PAREN", "FUNCTION"}

(* cursor_exit_left applied to what a successful cursor_enter_right left   *)
(* succeeds and gives the cursor of e back.                                *)
EnterThenExitLeft(e, entered) ==
    entered.ret =>
        /\ cursor_exit_left(entered.e).ret
        /\ cursor_exit_left(entered.e).e.cursor = e.cursor

(* cursor_exit_right applied to what a structural insert left (after)      *)
(* succeeds and puts the cursor in the sequence it was in before the       *)
(* insert, behind a container the insert allocated.                        *)
ExitRightAfterInsert(before, after, left) ==
    /\ left.ret
    /\ left.e.cursor.sequence = before.cursor.sequence
    /\ left.e.cursor.after /= NULL
    /\ ~Live(before.nodes, left.e.cursor.after)
    /\ after.nodes[left.e.cursor.after].type \in ContainerTypes

(* C38, first half: in every reachable state, if cursor_enter_right        *)
(* succeeds then cursor_exit_left called next succeeds and restores the    *)
(* cursor, sequence and after.                                             *)
C38_EnterExitRoundTrip == EnterThenExitLeft(expr, cursor_enter_right(expr))

(* C38, second half: after every successful structural insert,             *)
(* cursor_exit_right succeeds and places the cursor in the sequence it was *)
(* in before the insert, immediately after the new container.              *)
C38_ExitAfterInsert ==
    [][last'.op \in StructuralInsertOps =>
          ExitRightAfterInsert(expr, expr', cursor_exit_right(expr'))]_vars

(* C38: both halves.  Entering a container from the left and leaving it   *)
(* to the left restores the cursor, and leaving to the right after a       *)
(* successful structural insert lands behind the new container in the      *)
(* sequence the cursor was in.                                             *)
C38_RoundTrips == [](C38_EnterExitRoundTrip) /\ C38_ExitAfterInsert

(* A container lies ahead of the cursor inside a slot, so that             *)
(* cursor_enter_right succeeds from a nested sequence.                     *)
C38_Witness ==
    /\ cursor_enter_right(expr).ret
    /\ expr.cursor.sequence /= expr.root
    /\ expr.cursor.after /= NULL

(* An Exponent has just been inserted behind a Text node inside a slot.    *)
C38_WitnessInsert ==
    /\ last.op = "insert_exponent"
    /\ expr.cursor.sequence /= expr.root
    /\ cursor_exit_right(expr).ret
    /\ cursor_exit_right(expr).e.cursor.sequence /= expr.root

(***************************************************************************)
(* Typing a string: termination and results (C39)                          *)
(***************************************************************************)

(* With timeout_ticks > 0 the call returns. *)
C39_Terminates == kbd.timeout_ticks > 0 => <>(kbd.pc = "done")

(* The call returns -2 exactly on a cancel poll that answered true, -3     *)
(* only on a spent budget and 0 only after the last character.             *)
C39_Results ==
    [][kbd'.pc = "done" /\ kbd.pc /= "done" =>
          /\ kbd'.ret \in {0, -2, -3}
          /\ kbd'.ret = -2 => kbd.cancel_cb /\ kbd.pc \in {"loop", "wait"}
          /\ kbd'.ret = -3 => TimedOut(kbd)
          /\ kbd'.ret = 0 => kbd.ptr = Len(kbd.str)]_vars

(* idle_count goes back to 0 only in the step that sends the release       *)
(* report of a character whose press report was sent before it.            *)
C39_IdleReset ==
    [][kbd'.idle_count = 0 /\ kbd.idle_count > 0 =>
          /\ kbd.pc = "release"
          /\ kbd'.sent = Append(kbd.sent, Release)
          /\ kbd.sent /= <<>>
          /\ kbd.sent[Len(kbd.sent)] = Report(kbd.hid.modifiers, kbd.hid.key)]_vars

(* C39: a call with timeout_ticks > 0 that has returned gave -2 after a    *)
(* cancel poll that answered true, -3 if idle_count has counted up to the  *)
(* budget max_idle, and otherwise 0 after the last character.              *)
C39_TimeoutReported ==
    (/\ kbd.pc = "done"
     /\ kbd.timeout_ticks > 0
     /\ kbd.idle_count > 0
     /\ kbd.idle_count >= kbd.max_idle) => kbd.ret \in {-2, -3}

(* The call has returned -3 after the wait for the link used the budget up. *)
C39_Witness ==
    /\ kbd.pc = "done"
    /\ kbd.ret = -3
    /\ kbd.idle_count = 8

(***************************************************************************)
(* Typing a string: success means every character was sent (C40)           *)
(***************************************************************************)

(* The elements of q whose index keep selects. *)
Selected(q, keep) ==
    LET RECURSIVE Pick(_)
        Pick(i) == IF i > Len(q) THEN <<>>
                   ELSE (IF keep[i] THEN <<q[i]>> ELSE <<>>) \o Pick(i + 1)
    IN  Pick(1)

RECURSIVE TypedReports(_)

(* The reports of a string typed in full: for every character with a       *)
(* mapping its press report, then the release report.                      *)
TypedReports(str) ==
    IF str = <<>> THEN <<>>
    ELSE (IF char_to_hid(Head(str)).ok
          THEN <<Report(char_to_hid(Head(str)).modifiers,
                        char_to_hid(Head(str)).key), Release>>
          ELSE <<>>) \o TypedReports(Tail(str))

(* C40: the call returns 0 only if the press and the release report of     *)
(* every character that has a mapping were sent, in the order of the       *)
(* string; a character whose send failed is sent again or the call         *)
(* returns a negative result.                                              *)
C40_SuccessMeansAllSent ==
    (kbd.pc = "done" /\ kbd.ret = 0) => kbd.sent = TypedReports(kbd.str)

(* What the call does guarantee: the reports sent are the press reports    *)
(* of characters of the string in string order, each followed by its       *)
(* release report unless that send failed.                                 *)
C40_SentInOrder ==
    \E keep \in [1 .. Len(TypedReports(kbd.str)) -> BOOLEAN] :
        kbd.sent = Selected(TypedReports(kbd.str), keep)

(* The call has returned 0 with both reports of every character sent. *)
C40_Witness ==
    /\ kbd.pc = "done"
    /\ kbd.ret = 0
    /\ Len(kbd.sent) = 4

====
